---- MODULE Spec2Model ----
(***************************************************************************)
(* Verification model of the maplibre-rs tile data pipeline:               *)
(*   - the legacy filter evaluator   (maplibre/src/style/expression.rs)    *)
(*   - the ZeroTessellator           (tessellation/zero_tessellator.rs)    *)
(*   - process_vector_tile           (vector/process_vector.rs)            *)
(*   - the tile component store      (maplibre/src/tcs/tiles.rs)           *)
(*                                                                         *)
(* SpecTessellator drives one ZeroTessellator with every well-formed       *)
(* geozero event stream within the bounds.  SpecProcess runs one           *)
(* process_vector_tile invocation per tile of TileIds, interleaved, all    *)
(* writing to one sink.  SpecStore applies spawn, attach, clear, exists,    *)
(* the queries and find_layer to one Tiles store.                          *)
(***************************************************************************)
EXTENDS Integers, Sequences, FiniteSets

VARIABLES
    \* ---- ZeroTessellator fields (zero_tessellator.rs:25-38) ----
    path_builder,     \* lyon path Builder, abstracted: ended sub-paths, open sub-path
    path_open,
    is_point,
    buffer,           \* VertexBuffers: lengths of the vertex and of the index vector
    feature_indices,
    current_index,
    filter,
    properties,
    filtered,
    tess_pc,          \* "run", or "panicked" once an unwrap / unimplemented! fired
    \* ---- position of the geozero driver in the event stream ----
    stream,           \* stack of the geometry contexts that are open
    nfeat,            \* features begun so far
    ngeom,            \* top-level geometries completed in the current feature
    \* ---- observation of the run (history, not program state) ----
    mark,             \* buffer / ledger lengths at the last feature_begin
    featLog,          \* one record per feature_end
    lastEv,           \* the event handled last
    \* ---- process_vector_tile, one invocation per tile ----
    req,              \* per tile: the inputs (data, requested layers, style)
    inv,              \* per tile: position and locals of the invocation
    sink,             \* messages accepted by the sink, in order
    \* ---- Tiles (tcs/tiles.rs:29-34) ----
    tiles,            \* BTreeMap<Quadkey, Tile>
    components,       \* BTreeMap<Quadkey, Vec<component>>
    background_tile,  \* AvailableVectorLayerData of the background quad
    handle,           \* the TileSpawnResult that borrows the store, if any
    \* ---- observation of the store (history, not program state) ----
    nattach,          \* component values created so far: the next value's identity
    attached,         \* (key, type, identity) of every attach since the last clear
    ret,              \* the operation applied last, its arguments and its result
    \* ---- LegacyFilterExpression::evaluate applied on its own ----
    evaluated         \* the expression, the property map and the verdict

tessVars == <<path_builder, path_open, is_point, buffer, feature_indices,
              current_index, filter, properties, filtered, tess_pc,
              stream, nfeat, ngeom, mark, featLog, lastEv>>
procVars == <<req, inv, sink>>
storeVars == <<tiles, components, background_tile, handle, nattach, attached, ret>>
pureVars == <<evaluated>>
vars == <<tessVars, procVars, storeVars, pureVars>>

(***************************************************************************)
(* Bounds of the exploration.                                              *)
(***************************************************************************)
MaxFeatures == 2      \* features per event stream
MaxGeoms == 2         \* top-level geometries per feature (geometry collection)
MaxPts == 2           \* coordinates per sub-path
MaxSubs == 2          \* ended sub-paths held by the path builder
MaxLayers == 2        \* decoded layers per tile
MaxStyleLayers == 2   \* style layers per style

FloatScale == 2       \* Float literals are stored in units of 1/FloatScale

(***************************************************************************)
(* Comparison literals: [kind, n, s, b] with kind in Float, Integer, Bool,  *)
(* String; the payload of the kind is in n (numbers), s (strings) or b     *)
(* (booleans) and the other two fields are blank.  A Float carries its     *)
(* value times FloatScale.                                                 *)
(***************************************************************************)
LitString(x) == [kind |-> "String", n |-> 0, s |-> x, b |-> FALSE]
LitInteger(x) == [kind |-> "Integer", n |-> x, s |-> "", b |-> FALSE]
LitFloat(x) == [kind |-> "Float", n |-> x, s |-> "", b |-> FALSE]
LitBool(x) == [kind |-> "Bool", n |-> 0, s |-> "", b |-> x]
LitFault == [kind |-> "fault", n |-> 0, s |-> "", b |-> FALSE]  \* no literal: the conversion panicked

\* Strings of the model in Rust's String order (byte-wise lexicographic).
StringOrder == <<"LineString", "Polygon", "class", "park", "water">>
StrRank(s) == CHOOSE i \in 1..Len(StringOrder) : StringOrder[i] = s

\* `a as f64` for an Integer, the value itself for a Float, both in 1/FloatScale.
NumValue(l) == IF l.kind = "Integer" THEN l.n * FloatScale ELSE l.n
IsNum(l) == l.kind \in {"Integer", "Float"}

\* Mutant: numbers are equal when their numeric values are, whatever the variant.
LitEq_numeric(a, b) ==
    IF IsNum(a) /\ IsNum(b) THEN NumValue(a) = NumValue(b)
    ELSE a.kind = b.kind /\ a.n = b.n /\ a.s = b.s /\ a.b = b.b

\* #[derive(PartialEq)] on ComparisonLiteral: same variant and same payload.
LitEq(a, b) == a.kind = b.kind /\ a.n = b.n /\ a.s = b.s /\ a.b = b.b

\* Mutant: the wildcard arm of >= and <= orders two booleans, so that equal
\* booleans compare true.
compare_orders_bools(op, a, b) ==
    CASE op = "Eq" -> LitEq(a, b)
      [] op = "Neq" -> ~LitEq(a, b)
      [] op = "Gt" ->
            IF IsNum(a) /\ IsNum(b) THEN NumValue(a) > NumValue(b)
            ELSE IF a.kind = "String" /\ b.kind = "String" THEN StrRank(a.s) > StrRank(b.s)
            ELSE FALSE
      [] op = "Geq" ->
            IF IsNum(a) /\ IsNum(b) THEN NumValue(a) >= NumValue(b)
            ELSE IF a.kind = "String" /\ b.kind = "String" THEN StrRank(a.s) >= StrRank(b.s)
            ELSE a.kind = "Bool" /\ b.kind = "Bool" /\ a.b = b.b
      [] op = "Lt" ->
            IF IsNum(a) /\ IsNum(b) THEN NumValue(a) < NumValue(b)
            ELSE IF a.kind = "String" /\ b.kind = "String" THEN StrRank(a.s) < StrRank(b.s)
            ELSE FALSE
      [] op = "Leq" ->
            IF IsNum(a) /\ IsNum(b) THEN NumValue(a) <= NumValue(b)
            ELSE IF a.kind = "String" /\ b.kind = "String" THEN StrRank(a.s) <= StrRank(b.s)
            ELSE a.kind = "Bool" /\ b.kind = "Bool" /\ a.b = b.b

\* ExpressionComparisonOp::compare
compare(op, a, b) ==
    CASE op = "Eq" -> LitEq(a, b)
      [] op = "Neq" -> ~LitEq(a, b)
      [] op = "Gt" ->
            IF IsNum(a) /\ IsNum(b) THEN NumValue(a) > NumValue(b)
            ELSE IF a.kind = "String" /\ b.kind = "String" THEN StrRank(a.s) > StrRank(b.s)
            ELSE FALSE
      [] op = "Geq" ->
            IF IsNum(a) /\ IsNum(b) THEN NumValue(a) >= NumValue(b)
            ELSE IF a.kind = "String" /\ b.kind = "String" THEN StrRank(a.s) >= StrRank(b.s)
            ELSE FALSE
      [] op = "Lt" ->
            IF IsNum(a) /\ IsNum(b) THEN NumValue(a) < NumValue(b)
            ELSE IF a.kind = "String" /\ b.kind = "String" THEN StrRank(a.s) < StrRank(b.s)
            ELSE FALSE
      [] op = "Leq" ->
            IF IsNum(a) /\ IsNum(b) THEN NumValue(a) <= NumValue(b)
            ELSE IF a.kind = "String" /\ b.kind = "String" THEN StrRank(a.s) <= StrRank(b.s)
            ELSE FALSE

(***************************************************************************)
(* Filter expressions: [tag, ...].  evaluate returns "true", "false" or    *)
(* "fault" (unimplemented! fired).  Iterator::all / any stop at the first  *)
(* deciding child, so a fault behind it is never reached.                  *)
(***************************************************************************)
Has(k) == [tag |-> "Has", key |-> k]
NotHas(k) == [tag |-> "NotHas", key |-> k]
Comparison(op, k, lit) == [tag |-> "Comparison", op |-> op, key |-> k, value |-> lit]
In(k, preds) == [tag |-> "In", key |-> k, predicates |-> preds]
NotIn(k, preds) == [tag |-> "NotIn", key |-> k, predicates |-> preds]
All(cs) == [tag |-> "All", children |-> cs]
Any(cs) == [tag |-> "Any", children |-> cs]
None(cs) == [tag |-> "None", children |-> cs]

Bool3(b) == IF b THEN "true" ELSE "false"
Neg3(r) == IF r = "fault" THEN "fault" ELSE IF r = "true" THEN "false" ELSE "true"
Contains(seq, s) == \E i \in 1..Len(seq) : seq[i] = s

RECURSIVE evaluate(_, _)
RECURSIVE iter_all(_, _, _)
RECURSIVE iter_any(_, _)

\* Mutant: None negates the outcome of All instead of negating each child.
iter_all_negates_outcome(children, props, negate) ==
    IF negate THEN Neg3(iter_all(children, props, FALSE))
    ELSE IF children = <<>> THEN "true"
    ELSE LET r == evaluate(Head(children), props)
         IN IF r = "true" THEN iter_all(Tail(children), props, FALSE) ELSE r

\* children.iter().all(|c| pred(c)), pred(c) = c.evaluate(p) or its negation
iter_all(children, props, negate) ==
    IF children = <<>> THEN "true"
    ELSE LET r0 == evaluate(Head(children), props)
             r == IF negate THEN Neg3(r0) ELSE r0
         IN IF r = "true" THEN iter_all(Tail(children), props, negate) ELSE r

\* Mutant: Any takes its first child with an unwrap, which panics on an
\* empty child list.
iter_any_unwraps_first(children, props) ==
    IF children = <<>> THEN "fault"
    ELSE LET r == evaluate(Head(children), props)
         IN IF r = "false" /\ Tail(children) # <<>>
            THEN iter_any(Tail(children), props) ELSE r

\* children.iter().any(|c| c.evaluate(p))
iter_any(children, props) ==
    IF children = <<>> THEN "false"
    ELSE LET r == evaluate(Head(children), props)
         IN IF r = "false" THEN iter_any(Tail(children), props) ELSE r

\* Mutant: a comparison on an absent key compares "no value" with the literal,
\* so that inequality holds.
evaluate_absent_key_differs(e, props) ==
    CASE e.tag = "Has" -> Bool3(e.key \in DOMAIN props)
      [] e.tag = "NotHas" -> Bool3(e.key \notin DOMAIN props)
      [] e.tag = "Comparison" ->
            IF e.key \in DOMAIN props
            THEN Bool3(compare(e.op, props[e.key], e.value))
            ELSE Bool3(e.op = "Neq")
      [] e.tag = "In" ->
            IF e.key \notin DOMAIN props THEN "false"
            ELSE IF props[e.key].kind = "String"
                 THEN Bool3(Contains(e.predicates, props[e.key].s))
                 ELSE "fault"
      [] e.tag = "NotIn" ->
            IF e.key \notin DOMAIN props THEN "false"
            ELSE IF props[e.key].kind = "String"
                 THEN Bool3(~Contains(e.predicates, props[e.key].s))
                 ELSE "fault"
      [] e.tag = "All" -> iter_all(e.children, props, FALSE)
      [] e.tag = "Any" -> iter_any(e.children, props)
      [] e.tag = "None" -> iter_all(e.children, props, TRUE)

\* LegacyFilterExpression::evaluate; props is a function from keys to literals
evaluate(e, props) ==
    CASE e.tag = "Has" -> Bool3(e.key \in DOMAIN props)
      [] e.tag = "NotHas" -> Bool3(e.key \notin DOMAIN props)
      [] e.tag = "Comparison" ->
            IF e.key \in DOMAIN props
            THEN Bool3(compare(e.op, props[e.key], e.value))
            ELSE "false"
      [] e.tag = "In" ->
            IF e.key \notin DOMAIN props THEN "false"
            ELSE IF props[e.key].kind = "String"
                 THEN Bool3(Contains(e.predicates, props[e.key].s))
                 ELSE "fault"
      [] e.tag = "NotIn" ->
            IF e.key \notin DOMAIN props THEN "false"
            ELSE IF props[e.key].kind = "String"
                 THEN Bool3(~Contains(e.predicates, props[e.key].s))
                 ELSE "fault"
      [] e.tag = "All" -> iter_all(e.children, props, FALSE)
      [] e.tag = "Any" -> iter_any(e.children, props)
      [] e.tag = "None" -> iter_all(e.children, props, TRUE)

(***************************************************************************)
(* geozero ColumnValue -> ComparisonLiteral (From<&ColumnValue>).          *)
(* A column value is [ty, n, s, b]; the result is a literal, or LitFault for the *)
(* two unimplemented! arms.                                                *)
(***************************************************************************)
\* `*v as isize`: the identity on the values explored, which all lie far
\* inside the isize range (the cast wraps only for a ULong above isize::MAX).
AsIsize(n) == n

\* Mutant: a date or binary value is kept as its text instead of being refused.
FromColumnValue_keeps_unsupported(cv) ==
    CASE cv.ty = "Bool" -> LitBool(cv.b)
      [] cv.ty \in {"UByte", "Byte", "Short", "UShort", "Int", "UInt", "Long", "ULong"} ->
            LitInteger(AsIsize(cv.n))
      [] cv.ty \in {"Float", "Double"} -> LitFloat(cv.n)
      [] cv.ty \in {"String", "Json", "DateTime", "Binary"} -> LitString(cv.s)

FromColumnValue(cv) ==
    CASE cv.ty = "Bool" -> LitBool(cv.b)
      [] cv.ty \in {"UByte", "Byte", "Short", "UShort", "Int", "UInt", "Long", "ULong"} ->
            LitInteger(AsIsize(cv.n))
      [] cv.ty \in {"Float", "Double"} -> LitFloat(cv.n)
      [] cv.ty \in {"String", "Json"} -> LitString(cv.s)
      [] cv.ty \in {"DateTime", "Binary"} -> LitFault

(***************************************************************************)
(* HashMap<String, ComparisonLiteral>: a function from the keys present.   *)
(***************************************************************************)
EmptyMap == [k \in {} |-> LitFault]
MapInsert(m, k, val) == [x \in (DOMAIN m) \cup {k} |-> IF x = k THEN val ELSE m[x]]

(***************************************************************************)
(* lyon path Builder.  subs: the close flag of every ended sub-path, in    *)
(* order; cur: number of points of the sub-path begun and not yet ended    *)
(* (0: none); malformed: an edge or an end was pushed outside a sub-path,  *)
(* or the path was built with a sub-path still open.                       *)
(***************************************************************************)
EmptyBuilder == [subs |-> <<>>, cur |-> 0, malformed |-> FALSE]
BuilderBegin(b) ==
    IF b.cur > 0 THEN [b EXCEPT !.malformed = TRUE] ELSE [b EXCEPT !.cur = 1]
BuilderLineTo(b) ==
    IF b.cur = 0 THEN [b EXCEPT !.malformed = TRUE] ELSE [b EXCEPT !.cur = b.cur + 1]
BuilderEnd(b, close) ==
    IF b.cur = 0 THEN [b EXCEPT !.malformed = TRUE]
    ELSE [b EXCEPT !.subs = Append(b.subs, close), !.cur = 0]
\* Builder::build(): the path handed to the tessellator
BuilderBuild(b) == IF b.cur > 0 THEN [b EXCEPT !.malformed = TRUE] ELSE b
PathIsEmpty(p) == p.subs = <<>> /\ p.cur = 0 /\ ~p.malformed
\* The builder's debug validator rejects a misuse; a release build goes on.
BuilderMisuse(before, after) == after.malformed /\ ~before.malformed

(***************************************************************************)
(* lyon tessellate_path: the geometry it appends for a path is outside     *)
(* this repository.  An empty path appends nothing; any other path appends *)
(* some triangles or none, or the call returns an error.                   *)
(***************************************************************************)
TessOk(v, i) == [ok |-> TRUE, v |-> v, i |-> i]
TessErr == [ok |-> FALSE, v |-> 0, i |-> 0]
TessOutcomes(path) ==
    IF PathIsEmpty(path) THEN {TessOk(0, 0)}
    ELSE {TessOk(0, 0), TessOk(4, 6), TessErr}

\* BuffersBuilder::new(&mut self.buffer, ..): the output is appended
BufferAppend(buf, out) == [v |-> buf.v + out.v, i |-> buf.i + out.i]

(***************************************************************************)
(* ZeroTessellator                                                         *)
(***************************************************************************)
\* ZeroTessellator::cur_feature_matches_filter: "true", "false" or "fault"
NoFilter == [tag |-> "NoFilter"]            \* filter: None
cur_feature_matches_filter(f, props) ==
    IF f = NoFilter THEN "true" ELSE evaluate(f, props)

\* `as u32` on a usize: the identity below 2^32, and the index vector of this
\* exploration is a handful of entries long.
AsU32(n) == n

\* ZeroTessellator::update_feature_indices
update_feature_indices ==
    LET next_index == buffer.i
        indices == AsU32(next_index - current_index)
    IN /\ feature_indices' = Append(feature_indices, indices)
       /\ current_index' = next_index

\* ZeroTessellator::end, as the new (path_builder, path_open)
end(pb, po, close) ==
    IF po THEN [pb |-> BuilderEnd(pb, close), po |-> FALSE]
    ELSE [pb |-> pb, po |-> po]

\* ZeroTessellator::tessellate_strokes on the builder content pb
tessellate_strokes(pb) ==
    LET props == MapInsert(properties, "$type", LitString("LineString"))
        m == cur_feature_matches_filter(filter, props)
    IN /\ path_builder' = EmptyBuilder
       /\ properties' = props
       /\ CASE m = "fault" ->
                 tess_pc' = "panicked" /\ UNCHANGED <<buffer, filtered>>
            [] m = "false" ->
                 filtered' = TRUE /\ UNCHANGED <<buffer, tess_pc>>
            [] m = "true" ->
                 \E out \in TessOutcomes(BuilderBuild(pb)) :
                    IF out.ok
                    THEN buffer' = BufferAppend(buffer, out) /\ UNCHANGED <<filtered, tess_pc>>
                    ELSE tess_pc' = "panicked" /\ UNCHANGED <<buffer, filtered>>

\* ZeroTessellator::tessellate_fill on the builder content pb
tessellate_fill(pb) ==
    LET props == MapInsert(properties, "$type", LitString("Polygon"))
        m == cur_feature_matches_filter(filter, props)
    IN /\ path_builder' = EmptyBuilder
       /\ properties' = props
       /\ CASE m = "fault" ->
                 tess_pc' = "panicked" /\ UNCHANGED <<buffer, filtered>>
            [] m = "false" ->
                 filtered' = TRUE /\ UNCHANGED <<buffer, tess_pc>>
            [] m = "true" ->
                 \E out \in TessOutcomes(BuilderBuild(pb)) :
                    IF out.ok
                    THEN buffer' = BufferAppend(buffer, out) /\ UNCHANGED <<filtered, tess_pc>>
                    ELSE tess_pc' = "panicked" /\ UNCHANGED <<buffer, filtered>>

(***************************************************************************)
(* The geozero driver: the events of a well-formed stream.  A feature is   *)
(* feature_begin, its properties, its geometry (several top-level          *)
(* geometries when it is a geometry collection), feature_end.  A linestring*)
(* or polygon is tagged exactly when it is a top-level geometry.           *)
(***************************************************************************)
Top(st) == IF st = <<>> THEN "none" ELSE st[Len(st)]
Pop(st) == SubSeq(st, 1, Len(st) - 1)
AtTopLevel == stream = <<"feature">> /\ ngeom < MaxGeoms
Ev(name, tagged) == [name |-> name, tagged |-> tagged]

\* Inputs of the exploration
PropKeys == {"class"}
ColumnValue(ty, n, s, b) == [ty |-> ty, n |-> n, s |-> s, b |-> b]
ColumnValues == {ColumnValue("String", 0, "water", FALSE),
                 ColumnValue("Long", 1, "", FALSE),
                 ColumnValue("DateTime", 0, "", FALSE),
                 ColumnValue("Binary", 0, "", FALSE)}
Filters == {NoFilter,
            Comparison("Eq", "$type", LitString("LineString")),
            Comparison("Eq", "class", LitString("water")),
            In("class", <<"water">>),
            NotIn("class", <<"water">>)}

\* A misuse of the path builder panics under debug assertions only.
DebugAssertions(before, after) ==
    IF BuilderMisuse(before, after) THEN {TRUE, FALSE} ELSE {FALSE}

InitTessellator ==
    /\ path_builder = EmptyBuilder
    /\ path_open = FALSE
    /\ is_point = FALSE
    /\ buffer = [v |-> 0, i |-> 0]
    /\ feature_indices = <<>>
    /\ current_index = 0
    /\ filter \in Filters
    /\ properties = EmptyMap
    /\ filtered = FALSE
    /\ tess_pc = "run"
    /\ stream = <<>>
    /\ nfeat = 0
    /\ ngeom = 0
    /\ mark = [v |-> 0, i |-> 0, n |-> 0]
    /\ featLog = <<>>
    /\ lastEv = Ev("new", FALSE)

\* Mutant: feature_begin clears the properties and leaves the filtered flag.
feature_begin_keeps_filtered ==
    /\ tess_pc = "run" /\ stream = <<>> /\ nfeat < MaxFeatures
    /\ properties' = EmptyMap
    /\ stream' = <<"feature">>
    /\ nfeat' = nfeat + 1
    /\ ngeom' = 0
    /\ mark' = [v |-> buffer.v, i |-> buffer.i, n |-> Len(feature_indices)]
    /\ lastEv' = Ev("feature_begin", FALSE)
    /\ UNCHANGED <<path_builder, path_open, is_point, buffer, feature_indices,
                   current_index, filter, filtered, tess_pc, featLog>>

feature_begin ==
    /\ tess_pc = "run" /\ stream = <<>> /\ nfeat < MaxFeatures
    /\ properties' = EmptyMap
    /\ filtered' = FALSE
    /\ stream' = <<"feature">>
    /\ nfeat' = nfeat + 1
    /\ ngeom' = 0
    /\ mark' = [v |-> buffer.v, i |-> buffer.i, n |-> Len(feature_indices)]
    /\ lastEv' = Ev("feature_begin", FALSE)
    /\ UNCHANGED <<path_builder, path_open, is_point, buffer, feature_indices,
                   current_index, filter, tess_pc, featLog>>

feature_end ==
    /\ tess_pc = "run" /\ stream = <<"feature">>
    /\ IF ~filtered THEN update_feature_indices
       ELSE UNCHANGED <<feature_indices, current_index>>
    /\ stream' = <<>>
    /\ featLog' = Append(featLog, [filtered |-> filtered,
                                   v0 |-> mark.v, v1 |-> buffer.v,
                                   i0 |-> mark.i, i1 |-> buffer.i,
                                   n0 |-> mark.n, n1 |-> Len(feature_indices')])
    /\ lastEv' = Ev("feature_end", FALSE)
    /\ UNCHANGED <<path_builder, path_open, is_point, buffer, filter, properties,
                   filtered, tess_pc, nfeat, ngeom, mark>>

\* PropertyProcessor::property
property ==
    /\ tess_pc = "run" /\ stream = <<"feature">> /\ ngeom = 0
    /\ \E name \in PropKeys, value \in ColumnValues :
          LET lit == FromColumnValue(value)
          IN /\ IF lit.kind = "fault"
                THEN tess_pc' = "panicked" /\ UNCHANGED properties
                ELSE properties' = MapInsert(properties, name, lit) /\ UNCHANGED tess_pc
             /\ lastEv' = [name |-> "property", tagged |-> FALSE, value |-> value]
    /\ UNCHANGED <<path_builder, path_open, is_point, buffer, feature_indices,
                   current_index, filter, filtered, stream, nfeat, ngeom, mark, featLog>>

xy ==
    /\ tess_pc = "run" /\ Top(stream) \in {"point", "multipoint", "linestring"}
    /\ is_point \/ path_builder.cur < MaxPts
    /\ IF is_point
       THEN UNCHANGED <<path_builder, path_open, tess_pc>>
       ELSE LET nb == IF ~path_open THEN BuilderBegin(path_builder)
                      ELSE BuilderLineTo(path_builder)
            IN \E dbg \in DebugAssertions(path_builder, nb) :
                  IF dbg THEN tess_pc' = "panicked" /\ UNCHANGED <<path_builder, path_open>>
                  ELSE /\ path_builder' = nb
                       /\ path_open' = TRUE
                       /\ UNCHANGED tess_pc
    /\ lastEv' = Ev("xy", FALSE)
    /\ UNCHANGED <<is_point, buffer, feature_indices, current_index, filter,
                   properties, filtered, stream, nfeat, ngeom, mark, featLog>>

point_begin ==
    /\ tess_pc = "run" /\ AtTopLevel
    /\ is_point' = TRUE
    /\ stream' = Append(stream, "point")
    /\ lastEv' = Ev("point_begin", FALSE)
    /\ UNCHANGED <<path_builder, path_open, buffer, feature_indices, current_index,
                   filter, properties, filtered, tess_pc, nfeat, ngeom, mark, featLog>>

point_end ==
    /\ tess_pc = "run" /\ Top(stream) = "point"
    /\ is_point' = FALSE
    /\ stream' = Pop(stream)
    /\ ngeom' = ngeom + 1
    /\ lastEv' = Ev("point_end", FALSE)
    /\ UNCHANGED <<path_builder, path_open, buffer, feature_indices, current_index,
                   filter, properties, filtered, tess_pc, nfeat, mark, featLog>>

multipoint_begin ==
    /\ tess_pc = "run" /\ AtTopLevel
    /\ stream' = Append(stream, "multipoint")
    /\ lastEv' = Ev("multipoint_begin", FALSE)
    /\ UNCHANGED <<path_builder, path_open, is_point, buffer, feature_indices,
                   current_index, filter, properties, filtered, tess_pc, nfeat,
                   ngeom, mark, featLog>>

multipoint_end ==
    /\ tess_pc = "run" /\ Top(stream) = "multipoint"
    /\ stream' = Pop(stream)
    /\ ngeom' = ngeom + 1
    /\ lastEv' = Ev("multipoint_end", FALSE)
    /\ UNCHANGED <<path_builder, path_open, is_point, buffer, feature_indices,
                   current_index, filter, properties, filtered, tess_pc, nfeat,
                   mark, featLog>>

linestring_begin ==
    /\ tess_pc = "run"
    /\ AtTopLevel \/ Top(stream) \in {"multilinestring", "polygon"}
    /\ Len(path_builder.subs) < MaxSubs
    /\ stream' = Append(stream, "linestring")
    /\ lastEv' = Ev("linestring_begin", Len(stream) = 1)
    /\ UNCHANGED <<path_builder, path_open, is_point, buffer, feature_indices,
                   current_index, filter, properties, filtered, tess_pc, nfeat,
                   ngeom, mark, featLog>>

\* Mutant: every linestring completion tessellates strokes, tagged or not.
linestring_end_strokes_untagged ==
    /\ tess_pc = "run" /\ Top(stream) = "linestring"
    /\ LET tagged == Len(stream) = 2
           e == end(path_builder, path_open, FALSE)
       IN /\ \E dbg \in DebugAssertions(path_builder, e.pb) :
                IF dbg
                THEN /\ tess_pc' = "panicked"
                     /\ UNCHANGED <<path_builder, path_open, buffer, properties, filtered>>
                ELSE /\ path_open' = e.po
                     /\ tessellate_strokes(e.pb)
          /\ ngeom' = IF tagged THEN ngeom + 1 ELSE ngeom
          /\ lastEv' = Ev("linestring_end", tagged)
    /\ stream' = Pop(stream)
    /\ UNCHANGED <<is_point, feature_indices, current_index, filter, nfeat, mark, featLog>>

linestring_end ==
    /\ tess_pc = "run" /\ Top(stream) = "linestring"
    /\ LET tagged == Len(stream) = 2
           e == end(path_builder, path_open, FALSE)
       IN /\ \E dbg \in DebugAssertions(path_builder, e.pb) :
                IF dbg
                THEN /\ tess_pc' = "panicked"
                     /\ UNCHANGED <<path_builder, path_open, buffer, properties, filtered>>
                ELSE /\ path_open' = e.po
                     /\ IF tagged THEN tessellate_strokes(e.pb)
                        ELSE /\ path_builder' = e.pb
                             /\ UNCHANGED <<buffer, properties, filtered, tess_pc>>
          /\ ngeom' = IF tagged THEN ngeom + 1 ELSE ngeom
          /\ lastEv' = Ev("linestring_end", tagged)
    /\ stream' = Pop(stream)
    /\ UNCHANGED <<is_point, feature_indices, current_index, filter, nfeat, mark, featLog>>

multilinestring_begin ==
    /\ tess_pc = "run" /\ AtTopLevel
    /\ stream' = Append(stream, "multilinestring")
    /\ lastEv' = Ev("multilinestring_begin", FALSE)
    /\ UNCHANGED <<path_builder, path_open, is_point, buffer, feature_indices,
                   current_index, filter, properties, filtered, tess_pc, nfeat,
                   ngeom, mark, featLog>>

multilinestring_end ==
    /\ tess_pc = "run" /\ Top(stream) = "multilinestring"
    /\ tessellate_strokes(path_builder)
    /\ stream' = Pop(stream)
    /\ ngeom' = ngeom + 1
    /\ lastEv' = Ev("multilinestring_end", FALSE)
    /\ UNCHANGED <<path_open, is_point, feature_indices, current_index, filter,
                   nfeat, mark, featLog>>

polygon_begin ==
    /\ tess_pc = "run"
    /\ AtTopLevel \/ Top(stream) = "multipolygon"
    /\ Len(path_builder.subs) < MaxSubs
    /\ stream' = Append(stream, "polygon")
    /\ lastEv' = Ev("polygon_begin", Len(stream) = 1)
    /\ UNCHANGED <<path_builder, path_open, is_point, buffer, feature_indices,
                   current_index, filter, properties, filtered, tess_pc, nfeat,
                   ngeom, mark, featLog>>

polygon_end ==
    /\ tess_pc = "run" /\ Top(stream) = "polygon"
    /\ LET tagged == Len(stream) = 2
           e == end(path_builder, path_open, TRUE)
       IN /\ \E dbg \in DebugAssertions(path_builder, e.pb) :
                IF dbg
                THEN /\ tess_pc' = "panicked"
                     /\ UNCHANGED <<path_builder, path_open, buffer, properties, filtered>>
                ELSE /\ path_open' = e.po
                     /\ IF tagged THEN tessellate_fill(e.pb)
                        ELSE /\ path_builder' = e.pb
                             /\ UNCHANGED <<buffer, properties, filtered, tess_pc>>
          /\ ngeom' = IF tagged THEN ngeom + 1 ELSE ngeom
          /\ lastEv' = Ev("polygon_end", tagged)
    /\ stream' = Pop(stream)
    /\ UNCHANGED <<is_point, feature_indices, current_index, filter, nfeat, mark, featLog>>

multipolygon_begin ==
    /\ tess_pc = "run" /\ AtTopLevel
    /\ stream' = Append(stream, "multipolygon")
    /\ lastEv' = Ev("multipolygon_begin", FALSE)
    /\ UNCHANGED <<path_builder, path_open, is_point, buffer, feature_indices,
                   current_index, filter, properties, filtered, tess_pc, nfeat,
                   ngeom, mark, featLog>>

multipolygon_end ==
    /\ tess_pc = "run" /\ Top(stream) = "multipolygon"
    /\ tessellate_fill(path_builder)
    /\ stream' = Pop(stream)
    /\ ngeom' = ngeom + 1
    /\ lastEv' = Ev("multipolygon_end", FALSE)
    /\ UNCHANGED <<path_open, is_point, feature_indices, current_index, filter,
                   nfeat, mark, featLog>>

\* The process_vector_tile part stays idle while the tessellator is explored.
ProcessIdle ==
    /\ req = <<>>
    /\ inv = <<>>
    /\ sink = <<>>

\* No store is built while the tessellator or process_vector_tile is explored.
StoreIdle ==
    /\ tiles = <<>>
    /\ components = <<>>
    /\ background_tile = <<>>
    /\ handle = <<>>
    /\ nattach = 0
    /\ attached = {}
    /\ ret = <<>>

\* No filter is evaluated on its own.
PureIdle == evaluated = <<>>

NextTessellator ==
    /\ \/ feature_begin
       \/ feature_end
       \/ property
       \/ xy
       \/ point_begin
       \/ point_end
       \/ multipoint_begin
       \/ multipoint_end
       \/ linestring_begin
       \/ linestring_end
       \/ multilinestring_begin
       \/ multilinestring_end
       \/ polygon_begin
       \/ polygon_end
       \/ multipolygon_begin
       \/ multipolygon_end
    /\ UNCHANGED procVars
    /\ UNCHANGED storeVars
    /\ UNCHANGED pureVars

\* A tessellator alone, driven by an event stream
InitTessellatorAlone ==
    /\ InitTessellator
    /\ ProcessIdle
    /\ StoreIdle
    /\ PureIdle

SpecTessellator == InitTessellatorAlone /\ [][NextTessellator]_vars

(***************************************************************************)
(* process_vector_tile                                                     *)
(*                                                                         *)
(* req[t]: data (whether the bytes decode, and the names of the decoded    *)
(* layers in tile order), layers (the requested names), style (the style   *)
(* layers in style order).  inv[t]: pc and the loop state: li (index of    *)
(* the tile layer being visited), todo (corresponding_style_layers not yet *)
(* processed), pending (requested names still to report missing), result   *)
(* (what the call returned), and the record of the run: pairLog (each pair *)
(* tessellated: its outcome, the report accepted for it), sent (how many   *)
(* messages the sink accepted from this invocation) and refused (each      *)
(* message the sink refused: its kind, its name, and sent at that time).   *)
(* A message in the sink is annotated with the phase that sent it.         *)
(***************************************************************************)
NoSource == "<none>"          \* source_layer: None
StyleLayer(id, src) == [id |-> id, source_layer |-> src]

\* ProcessVectorContext: the three messages
layer_missing(coords, layer_name) ==
    [kind |-> "layer_missing", coords |-> coords, name |-> layer_name]
layer_tesselation_finished(coords, style_layer_id) ==
    [kind |-> "layer_tessellated", coords |-> coords, name |-> style_layer_id]
tile_finished(coords) ==
    [kind |-> "tile_finished", coords |-> coords, name |-> ""]
InPhase(msg, phase) ==
    [kind |-> msg.kind, coords |-> msg.coords, name |-> msg.name, phase |-> phase]

\* Mutant of send_back: a refused send drops what the sink holds.
send_back_drops_queue(snk, msg, accepted) == IF accepted THEN Append(snk, msg) ELSE <<>>

\* Context::send_back: the sink takes the message or refuses it
send_back(snk, msg, accepted) == IF accepted THEN Append(snk, msg) ELSE snk

\* Mutant of corresponding_style_layers: the filter on source_layer is inverted.
corresponding_style_layers_inverted(style, layer_name) ==
    SelectSeq(style, LAMBDA sl : sl.source_layer # layer_name)

\* style.layers.iter().filter(source_layer == Some(layer_name)).collect()
corresponding_style_layers(style, layer_name) ==
    SelectSeq(style, LAMBDA sl : sl.source_layer = layer_name)
\* Mutant of available_layers: the set of decoded names is left empty.
available_layers_none(data) == {}

\* tile.layers.iter().map(|layer| layer.name.clone()).collect::<HashSet<_>>()
available_layers(data) == {data.layers[i] : i \in 1..Len(data.layers)}

\* Outcome of layer.process(&mut tessellator) for one pair:
\*   "ok"          every event was handled
\*   "err"         the geometry reader returned Err
\*   "lyon_error"  tessellate_path returned Err, and .unwrap() panicked
\*   "unsupported" unimplemented! fired in the filter or a property conversion
TessellationOutcomes == {"ok", "err", "lyon_error", "unsupported"}
Panics == {"lyon_error", "unsupported"}

Return(i, res) == [i EXCEPT !.pc = "returned", !.result = res]
Refuse(i, msgs) ==
    [i EXCEPT !.refused = @ \o [k \in 1..Len(msgs) |->
                                  [kind |-> msgs[k].kind, name |-> msgs[k].name, at |-> i.sent]]]
Sent(i) == [i EXCEPT !.sent = @ + 1]
PairEntry(i, style_layer, o, report) ==
    [i EXCEPT !.pairLog = Append(@, [li |-> i.li, id |-> style_layer.id,
                                     outcome |-> o, report |-> report])]

\* Mutant of Decode: the decoding error is dropped and the call goes on.
Decode_ignores_error(t) ==
    /\ inv[t].pc = "decode"
    /\ inv' = [inv EXCEPT ![t].pc = "layers"]
    /\ UNCHANGED <<req, sink>>

\* geozero::mvt::Tile::decode(data).map_err(..)?
Decode(t) ==
    /\ inv[t].pc = "decode"
    /\ inv' = [inv EXCEPT ![t] =
                 IF req[t].data.decodes
                 THEN [@ EXCEPT !.pc = "layers"]
                 ELSE Return(@, "Decoding")]
    /\ UNCHANGED <<req, sink>>

\* head of `for layer in &mut tile.layers`
NextLayer(t) ==
    /\ inv[t].pc = "layers" /\ inv[t].todo = <<>>
    /\ inv[t].li < Len(req[t].data.layers)
    /\ LET layer_name == req[t].data.layers[inv[t].li + 1]
       IN inv' = [inv EXCEPT ![t].li = @ + 1,
                             ![t].todo =
                                 IF layer_name \notin req[t].layers THEN <<>>
                                 ELSE corresponding_style_layers(req[t].style, layer_name)]
    /\ UNCHANGED <<req, sink>>

\* body of `for style_layer in corresponding_style_layers`
ProcessPair(t) ==
    /\ inv[t].pc = "layers" /\ inv[t].todo # <<>>
    /\ LET style_layer == Head(inv[t].todo)
           missing == InPhase(layer_missing(t, style_layer.id), "layers")
           finished == InPhase(layer_tesselation_finished(t, style_layer.id), "layers")
           next(i) == [i EXCEPT !.todo = Tail(@)]
       IN \E o \in TessellationOutcomes :
            CASE o \in Panics ->
                   /\ inv' = [inv EXCEPT ![t] =
                                Return(PairEntry(@, style_layer, o, "none"), "panicked")]
                   /\ UNCHANGED sink
              [] o = "err" ->
                   \E sent \in BOOLEAN :
                     /\ sink' = send_back(sink, missing, sent)
                     /\ inv' = [inv EXCEPT ![t] =
                                  IF sent
                                  THEN Sent(next(PairEntry(@, style_layer, o, "layer_missing")))
                                  ELSE Return(Refuse(PairEntry(@, style_layer, o, "none"),
                                                     <<missing>>), "SendError")]
              [] o = "ok" ->
                   \E sent \in BOOLEAN :
                     IF sent
                     THEN /\ sink' = send_back(sink, finished, TRUE)
                          /\ inv' = [inv EXCEPT ![t] =
                                       Sent(next(PairEntry(@, style_layer, o, "layer_tessellated")))]
                     ELSE \E resent \in BOOLEAN :
                          /\ sink' = send_back(sink, missing, resent)
                          /\ inv' = [inv EXCEPT ![t] =
                                       IF resent
                                       THEN Sent(next(Refuse(PairEntry(@, style_layer, o, "layer_missing"),
                                                             <<finished>>)))
                                       ELSE Return(Refuse(PairEntry(@, style_layer, o, "none"),
                                                          <<finished, missing>>),
                                                   "SendError")]
    /\ UNCHANGED req

\* Mutant of EnterMissing: tile_finished is sent as soon as the layers are done.
EnterMissing_reports_finished(t) ==
    /\ inv[t].pc = "layers" /\ inv[t].todo = <<>>
    /\ inv[t].li = Len(req[t].data.layers)
    /\ sink' = Append(sink, InPhase(tile_finished(t), "finish"))
    /\ inv' = [inv EXCEPT ![t] =
                 Sent([@ EXCEPT !.pc = "missing",
                                !.pending = req[t].layers \ available_layers(req[t].data)])]
    /\ UNCHANGED req

\* the loop over tile.layers is exhausted: compute the difference
EnterMissing(t) ==
    /\ inv[t].pc = "layers" /\ inv[t].todo = <<>>
    /\ inv[t].li = Len(req[t].data.layers)
    /\ inv' = [inv EXCEPT ![t].pc = "missing",
                          ![t].pending = req[t].layers \ available_layers(req[t].data)]
    /\ UNCHANGED <<req, sink>>

\* Mutant of ReportMissing: a refused layer_missing is not propagated (no `?`).
ReportMissing_ignores_refusal(t) ==
    /\ inv[t].pc = "missing" /\ inv[t].pending # {}
    /\ \E missing_layer \in inv[t].pending, sent \in BOOLEAN :
         /\ sink' = send_back(sink, InPhase(layer_missing(t, missing_layer), "missing"), sent)
         /\ inv' = [inv EXCEPT ![t] =
                      IF sent THEN Sent([@ EXCEPT !.pending = @ \ {missing_layer}])
                      ELSE Refuse([@ EXCEPT !.pending = @ \ {missing_layer}],
                                  <<layer_missing(t, missing_layer)>>)]
    /\ UNCHANGED req

\* body of `for missing_layer in tile_request.layers.difference(..)`,
\* in the hash set's iteration order
ReportMissing(t) ==
    /\ inv[t].pc = "missing" /\ inv[t].pending # {}
    /\ \E missing_layer \in inv[t].pending, sent \in BOOLEAN :
         /\ sink' = send_back(sink, InPhase(layer_missing(t, missing_layer), "missing"), sent)
         /\ inv' = [inv EXCEPT ![t] =
                      IF sent THEN Sent([@ EXCEPT !.pending = @ \ {missing_layer}])
                      ELSE Return(Refuse(@, <<layer_missing(t, missing_layer)>>), "SendError")]
    /\ UNCHANGED req

\* context.tile_finished(coords)?; Ok(())
TileFinished(t) ==
    /\ inv[t].pc = "missing" /\ inv[t].pending = {}
    /\ \E sent \in BOOLEAN :
         /\ sink' = send_back(sink, InPhase(tile_finished(t), "finish"), sent)
         /\ inv' = [inv EXCEPT ![t] =
                      IF sent THEN Return(Sent(@), "Ok")
                      ELSE Return(Refuse(@, <<tile_finished(t)>>), "SendError")]
    /\ UNCHANGED req

(***************************************************************************)
(* Inputs of process_vector_tile.  Style layer ids are s1, s2, ... in      *)
(* style order.                                                            *)
(***************************************************************************)
LayerNames == {"a", "b"}
StyleIds == <<"s1", "s2", "s3", "s4">>
SeqsUpTo(S, n) == UNION {[1..k -> S] : k \in 0..n}
Undecodable == [decodes |-> FALSE, layers |-> <<>>]
TileData == {Undecodable} \cup
            {[decodes |-> TRUE, layers |-> l] : l \in SeqsUpTo(LayerNames, MaxLayers)}
Styles == {[k \in 1..Len(src) |-> StyleLayer(StyleIds[k], src[k])] :
              src \in SeqsUpTo(LayerNames \cup {NoSource}, MaxStyleLayers)}
Requests == {[data |-> d, layers |-> l, style |-> st] :
                d \in TileData, l \in SUBSET LayerNames, st \in Styles}

\* Inputs of the interleaved runs: one style for both tiles
SharedStyle == <<StyleLayer("s1", "a"), StyleLayer("s2", "a")>>
InterleavedRequests ==
    {[data |-> d, layers |-> l, style |-> SharedStyle] :
        d \in {Undecodable, [decodes |-> TRUE, layers |-> <<"a">>]},
        l \in {{"a"}, {"a", "b"}}}

NewInvocation == [pc |-> "decode", li |-> 0, todo |-> <<>>, pending |-> {},
                  result |-> "none", pairLog |-> <<>>, refused |-> <<>>,
                  sent |-> 0]

\* The tessellator part stays idle while process_vector_tile is explored.
TessellatorIdle == InitTessellator /\ filter = NoFilter

InitProcess ==
    /\ TessellatorIdle
    /\ StoreIdle
    /\ PureIdle
    /\ req \in [{1} -> Requests]
    /\ inv = [t \in {1} |-> NewInvocation]
    /\ sink = <<>>

InitInterleaved ==
    /\ TessellatorIdle
    /\ StoreIdle
    /\ PureIdle
    /\ req \in [{1, 2} -> InterleavedRequests]
    /\ inv = [t \in {1, 2} |-> NewInvocation]
    /\ sink = <<>>

NextProcess ==
    /\ \E t \in DOMAIN inv :
          \/ Decode(t)
          \/ NextLayer(t)
          \/ ProcessPair(t)
          \/ EnterMissing(t)
          \/ ReportMissing(t)
          \/ TileFinished(t)
    /\ UNCHANGED tessVars
    /\ UNCHANGED storeVars
    /\ UNCHANGED pureVars

SpecProcess == InitProcess /\ [][NextProcess]_vars
SpecInterleaved == InitInterleaved /\ [][NextProcess]_vars

(***************************************************************************)
(* Claims about the tessellator (SpecTessellator)                          *)
(***************************************************************************)
RECURSIVE SeqSum(_)
SeqSum(sq) == IF sq = <<>> THEN 0 ELSE Head(sq) + SeqSum(Tail(sq))
KeptFeatures == SelectSeq(featLog, LAMBDA f : ~f.filtered)

\* C1: whenever the tessellator stands between two features (every feature
\* begun has ended), the entries of feature_indices add up to the length of
\* the index buffer.
C1_FeatureIndexConservation ==
    (tess_pc = "run" /\ stream = <<>>) => SeqSum(feature_indices) = buffer.i

\* C2: a feature that is marked filtered at its feature_end appended no
\* vertex and no index between its feature_begin and its feature_end, and
\* added no entry to feature_indices.
C2_FilteredFeatureAppendsNothing ==
    \A k \in 1..Len(featLog) :
        featLog[k].filtered =>
            /\ featLog[k].v1 = featLog[k].v0
            /\ featLog[k].i1 = featLog[k].i0
            /\ featLog[k].n1 = featLog[k].n0

\* C3: feature_indices holds one entry per non-filtered feature, in order,
\* and entry j is the number of indices appended between the feature_begin
\* and the feature_end of the j-th non-filtered feature.
C3_EntryIsOwnFeatureGrowth ==
    /\ Len(feature_indices) = Len(KeptFeatures)
    /\ \A j \in 1..Len(KeptFeatures) :
          feature_indices[j] = KeptFeatures[j].i1 - KeptFeatures[j].i0

(***************************************************************************)
(* Claims about process_vector_tile (SpecProcess, SpecInterleaved)         *)
(***************************************************************************)
TileIds == DOMAIN inv
TileMsgs(t) == SelectSeq(sink, LAMBDA m : m.coords = t)
PhaseMsgs(t, phase) == SelectSeq(sink, LAMBDA m : m.coords = t /\ m.phase = phase)
PhaseRank(phase) == CASE phase = "layers" -> 1 [] phase = "missing" -> 2 [] phase = "finish" -> 3
KindFitsPhase(m) ==
    CASE m.phase = "layers" -> m.kind \in {"layer_tessellated", "layer_missing"}
      [] m.phase = "missing" -> m.kind = "layer_missing"
      [] m.phase = "finish" -> m.kind = "tile_finished"
\* layer reports, then missing reports, then tile_finished, at most once and last
SingleTileOrder(ms) ==
    /\ \A i \in 1..Len(ms) : KindFitsPhase(ms[i])
    /\ \A i, j \in 1..Len(ms) : i < j => PhaseRank(ms[i].phase) <= PhaseRank(ms[j].phase)
    /\ \A i \in 1..Len(ms) : ms[i].kind = "tile_finished" => i = Len(ms)
DecodedNames(t) == {req[t].data.layers[i] : i \in 1..Len(req[t].data.layers)}
AbsentNames(t) == {n \in req[t].layers : n \notin DecodedNames(t)}
\* the (tile layer, style layer) positions that match and are requested
MatchingPairs(t) ==
    {p \in (1..Len(req[t].data.layers)) \X (1..Len(req[t].style)) :
        /\ req[t].data.layers[p[1]] \in req[t].layers
        /\ req[t].style[p[2]].source_layer = req[t].data.layers[p[1]]}
SeqCount(sq, P(_)) == Cardinality({i \in 1..Len(sq) : P(sq[i])})

\* C4: in every run that returned Ok, the tile's messages are the reports of
\* the (layer, style layer) pairs, then the layer_missing reports of the
\* absent requested layers, then tile_finished, sent exactly once and last.
C4_MessageOrder ==
    \A t \in TileIds :
        inv[t].result = "Ok" =>
            /\ SingleTileOrder(TileMsgs(t))
            /\ SeqCount(TileMsgs(t), LAMBDA m : m.kind = "tile_finished") = 1
            /\ TileMsgs(t)[Len(TileMsgs(t))].kind = "tile_finished"
C4_Witness ==
    \E t \in TileIds :
        /\ inv[t].result = "Ok"
        /\ PhaseMsgs(t, "layers") # <<>>
        /\ PhaseMsgs(t, "missing") # <<>>

\* C5: once the sink has refused any message of the invocation, the
\* invocation has returned SendError and the sink holds no message of the tile
\* beyond those it held at the refusal.
C5_AnySendFailureAborts ==
    \A t \in TileIds :
        \A k \in 1..Len(inv[t].refused) :
            /\ inv[t].pc = "returned" /\ inv[t].result = "SendError"
            /\ Len(TileMsgs(t)) = inv[t].refused[k].at
\* What the code does on a refused send: a refused layer_missing or
\* tile_finished ends the invocation with SendError and no further message of
\* the tile, as C5 requires; a refused layer_tessellated does not: it is
\* followed by layer_missing for the same style layer, which is the tile's
\* next message if the sink accepts it, and which ends the invocation like
\* any refused layer_missing if it does not.
C5_SendFailure ==
    \A t \in TileIds :
        LET refused == inv[t].refused
        IN /\ inv[t].result = "SendError" => refused # <<>>
           /\ \A k \in 1..Len(refused) :
                IF refused[k].kind \in {"layer_missing", "tile_finished"}
                THEN /\ inv[t].pc = "returned" /\ inv[t].result = "SendError"
                     /\ k = Len(refused)
                     /\ Len(TileMsgs(t)) = refused[k].at
                ELSE \/ /\ Len(TileMsgs(t)) > refused[k].at
                        /\ TileMsgs(t)[refused[k].at + 1] =
                              InPhase(layer_missing(t, refused[k].name), "layers")
                     \/ /\ k < Len(refused)
                        /\ refused[k + 1].kind = "layer_missing"
                        /\ refused[k + 1].name = refused[k].name
                        /\ refused[k + 1].at = refused[k].at
C5_Witness ==
    \E t \in TileIds :
        /\ inv[t].result = "SendError"
        /\ Len(inv[t].refused) = 2
        /\ inv[t].refused[1].kind = "layer_tessellated"
        /\ inv[t].refused[2].kind = "tile_finished"
        /\ Len(TileMsgs(t)) > 1

\* C6: when the tile bytes do not decode, the invocation sends no message at
\* all, and what it returns is the Decoding error.
C6_DecodeFailureSendsNothing ==
    \A t \in TileIds :
        ~req[t].data.decodes =>
            /\ TileMsgs(t) = <<>>
            /\ inv[t].sent = 0
            /\ inv[t].pc = "returned" => inv[t].result = "Decoding"
C6_Witness ==
    \E t \in TileIds :
        /\ ~req[t].data.decodes
        /\ req[t].layers # {}
        /\ inv[t].pc = "returned" /\ inv[t].result = "Decoding"

\* The missing phase is over: every pending name was reported.
MissingPhaseDone(t) ==
    \/ inv[t].pc = "missing" /\ inv[t].pending = {}
    \/ inv[t].result = "Ok"
    \/ /\ inv[t].result = "SendError"
       /\ inv[t].refused[Len(inv[t].refused)].kind = "tile_finished"

\* C7: the missing phase sends layer_missing(name) only for requested names
\* that no decoded layer bears, never twice for one name, and, once the phase
\* is over without a refused send, exactly once for each such name.
C7_MissingReports ==
    \A t \in TileIds :
        LET ms == PhaseMsgs(t, "missing")
        IN /\ \A i \in 1..Len(ms) :
                 ms[i].kind = "layer_missing" /\ ms[i].name \in AbsentNames(t)
           /\ \A i, j \in 1..Len(ms) : ms[i].name = ms[j].name => i = j
           /\ MissingPhaseDone(t) => {ms[i].name : i \in 1..Len(ms)} = AbsentNames(t)
C7_Witness ==
    \E t \in TileIds :
        /\ inv[t].result = "Ok" /\ inv[t].refused = <<>>
        /\ AbsentNames(t) # {}
        /\ DecodedNames(t) \cap req[t].layers # {}
        /\ Len(PhaseMsgs(t, "missing")) = Cardinality(AbsentNames(t))

\* The report the claims expect for a tessellated pair.
ExpectedReport(outcome) == IF outcome = "ok" THEN "layer_tessellated" ELSE "layer_missing"

\* C8: an invocation that has ended with no refused send has sent, for each
\* decoded layer that is requested and
\* each style layer whose source_layer is its name, exactly one report with
\* that style layer's id: layer_tessellated when the tessellation succeeded,
\* layer_missing when it failed; and no other report.
C8_OneReportPerPair ==
    \A t \in TileIds :
        (inv[t].pc = "returned" /\ req[t].data.decodes
            /\ inv[t].refused = <<>>) =>
            /\ \A k \in 1..Len(req[t].style) :
                  SeqCount(PhaseMsgs(t, "layers"), LAMBDA m : m.name = req[t].style[k].id)
                     = Cardinality({p \in MatchingPairs(t) : p[2] = k})
            /\ Len(PhaseMsgs(t, "layers")) = Cardinality(MatchingPairs(t))
            /\ \A k \in 1..Len(inv[t].pairLog) :
                  inv[t].pairLog[k].report = ExpectedReport(inv[t].pairLog[k].outcome)

\* C9: a pair whose tessellation failed is reported missing, and the failure
\* does not end the invocation: it goes on to the remaining pairs, the missing
\* reports and tile_finished (unless a send is refused).
C9_TessellationFailureIsLocal ==
    \A t \in TileIds :
        \A k \in 1..Len(inv[t].pairLog) :
            (inv[t].pairLog[k].outcome # "ok" /\ inv[t].refused = <<>>) =>
                /\ inv[t].pairLog[k].report = "layer_missing"
                /\ inv[t].result \in {"none", "Ok"}

\* C10: with several invocations writing to one sink, the messages of each
\* tile taken alone keep the single-tile order, and they are exactly the
\* messages its own invocation had accepted: no step of another invocation,
\* failing or not, removed or added one.
C10_InterleavedTiles ==
    \A t \in TileIds :
        /\ SingleTileOrder(TileMsgs(t))
        /\ Len(TileMsgs(t)) = inv[t].sent
        /\ inv[t].result = "Ok" => TileMsgs(t)[Len(TileMsgs(t))].kind = "tile_finished"
        /\ SeqCount(TileMsgs(t), LAMBDA m : m.phase = "layers") =
              SeqCount(inv[t].pairLog, LAMBDA e : e.report # "none")
C10_Witness ==
    \E t, u \in TileIds :
        /\ inv[t].result = "SendError" /\ inv[u].result = "Ok"
        /\ \E i, j, k \in 1..Len(sink) :
              /\ i < j /\ j < k
              /\ sink[i].coords = u /\ sink[j].coords = t /\ sink[k].coords = u
              /\ inv[t].refused[1].at >= 1

(***************************************************************************)
(* The tile component store (tcs/tiles.rs)                                 *)
(*                                                                         *)
(* An Option is Nothing or Some(v); a call that panicked has the result    *)
(* Fault.  The store is single-owner: one operation at a time, and a       *)
(* TileSpawnResult borrows the store until the next operation on it.       *)
(***************************************************************************)
MaxAttach == 2        \* component values attached in one exploration

Nothing == [tag |-> "None"]
Some(v) == [tag |-> "Some", v |-> v]
Fault == [tag |-> "panic"]
IsSome(o) == o.tag = "Some"
IsNothing(o) == o.tag = "None"
IsFault(o) == o.tag = "panic"

WorldTileCoords(x, y, z) == [x |-> x, y |-> y, z |-> z]
Tile(coords) == [coords |-> coords]

\* WorldTileCoords::build_quad_key: nothing for a coordinate outside the
\* pyramid, else the zoom followed by the quadrant taken at each level of
\* the path from the root tile.
RECURSIVE QuadPath(_, _, _)
QuadPath(x, y, z) ==
    IF z = 0 THEN <<>>
    ELSE Append(QuadPath(x \div 2, y \div 2, z - 1), 2 * (y % 2) + (x % 2))
build_quad_key(coords) ==
    IF coords.x \in 0..(2 ^ coords.z - 1) /\ coords.y \in 0..(2 ^ coords.z - 1)
    THEN Some(<<coords.z>> \o QuadPath(coords.x, coords.y, coords.z))
    ELSE Nothing

\* Coordinates of the exploration: the root tile, a tile of zoom 1, and a
\* coordinate that has no quadkey (x beyond the zoom's width)
StoreCoords == {WorldTileCoords(0, 0, 0), WorldTileCoords(1, 0, 1), WorldTileCoords(1, 0, 0)}

\* VectorLayerData: Available(AvailableVectorLayerData) | Missing(layer name).
\* buffer stands for the content of the entry's buffers.
Available(style_layer_id, buf) ==
    [kind |-> "Available", style_layer_id |-> style_layer_id, buffer |-> buf]
Missing(source_layer) ==
    [kind |-> "Missing", style_layer_id |-> source_layer, buffer |-> "none"]

\* A boxed component value: its concrete type (TypeId), the identity of the
\* value, and the layers of a VectorLayersDataComponent.
VectorLayers == "VectorLayersDataComponent"
Component(type, id, layers) == [type |-> type, id |-> id, layers |-> layers]
VectorLayerLists ==
    {<<Available("s1", "b1")>>,
     <<Missing("s1"), Available("s2", "b2")>>,
     <<Available("s2", "b2"), Available("s1", "b1"), Available("s1", "b3")>>}
\* The values attached when the queries are explored, and when find_layer is
PlainComponents(id) == {Component(ty, id, <<>>) : ty \in {"A", "B"}}
LayerComponents(id) ==
    {Component("A", id, <<>>)} \cup {Component(VectorLayers, id, l) : l \in VectorLayerLists}

\* Default for Tiles: the background quad is tessellated by a filterless
\* ZeroTessellator fed feature_begin, polygon_begin(tagged), four xy,
\* polygon_end(tagged), feature_end.
BackgroundPath ==
    LET p1 == BuilderBegin(EmptyBuilder)        \* xy: path not open yet
        p4 == BuilderLineTo(BuilderLineTo(BuilderLineTo(p1)))
        ended == end(p4, TRUE, TRUE)            \* polygon_end: end(true)
    IN BuilderBuild(ended.pb)                   \* tessellate_fill
BackgroundTile(out) ==
    LET buf == BufferAppend([v |-> 0, i |-> 0], out)
    IN [coords |-> WorldTileCoords(0, 0, 0),
        feature_indices |-> <<AsU32(buf.i - 0)>>,     \* feature_end, not filtered
        buffer |-> buf,
        style_layer_id |-> "background"]
NoBackground == [coords |-> WorldTileCoords(0, 0, 0), feature_indices |-> <<>>,
                 buffer |-> [v |-> 0, i |-> 0], style_layer_id |-> "none"]
NoHandle == Nothing
Call(op, args, result) == [op |-> op, args |-> args, result |-> result]

DefaultTiles ==
    /\ tiles = <<>>
    /\ components = <<>>
    /\ handle = NoHandle
    /\ nattach = 0
    /\ attached = {}
    /\ \E out \in TessOutcomes(BackgroundPath) :
          IF out.ok
          THEN /\ background_tile = BackgroundTile(out)
               /\ ret = Call("default", <<>>, Nothing)
          ELSE /\ background_tile = NoBackground      \* .unwrap() panicked
               /\ ret = Call("default", <<>>, Fault)

\* No operation follows a panic.
StoreRunning == ~IsFault(ret.result)

\* Tiles::exists
exists(coords) ==
    /\ StoreRunning
    /\ LET key == build_quad_key(coords)
       IN ret' = Call("exists", <<coords>>,
                      Some(IF IsSome(key) THEN key.v \in DOMAIN tiles ELSE FALSE))
    /\ handle' = NoHandle
    /\ UNCHANGED <<tiles, components, background_tile, nattach, attached>>

\* Mutant: every spawn inserts a fresh tile and a fresh component list.
spawn_mut_always_inserts(coords) ==
    /\ StoreRunning
    /\ LET key == build_quad_key(coords)
       IN IF IsSome(key)
          THEN /\ tiles' = MapInsert(tiles, key.v, Tile(coords))
               /\ components' = MapInsert(components, key.v, <<>>)
               /\ handle' = Some(Tile(coords))
          ELSE /\ handle' = NoHandle
               /\ UNCHANGED <<tiles, components>>
    /\ ret' = Call("spawn_mut", <<coords>>, handle')
    /\ UNCHANGED <<background_tile, nattach, attached>>

\* Mutant: a coordinate without a quadkey is stored under the root's key.
spawn_mut_unencodable_at_root(coords) ==
    /\ StoreRunning
    /\ LET key == build_quad_key(coords)
           k == IF IsSome(key) THEN key.v ELSE <<0>>
       IN IF k \in DOMAIN tiles
          THEN /\ handle' = Some(tiles[k])
               /\ UNCHANGED <<tiles, components>>
          ELSE /\ tiles' = MapInsert(tiles, k, Tile(coords))
               /\ components' = MapInsert(components, k, <<>>)
               /\ handle' = Some(Tile(coords))
    /\ ret' = Call("spawn_mut", <<coords>>, handle')
    /\ UNCHANGED <<background_tile, nattach, attached>>

\* Tiles::spawn_mut
\* Mutant: a new tile gets no component list.
spawn_mut_without_components(coords) ==
    /\ StoreRunning
    /\ LET key == build_quad_key(coords)
       IN IF IsSome(key)
          THEN IF key.v \in DOMAIN tiles
               THEN /\ handle' = Some(tiles[key.v])
                    /\ UNCHANGED <<tiles, components>>
               ELSE /\ tiles' = MapInsert(tiles, key.v, Tile(coords))
                    /\ handle' = Some(Tile(coords))
                    /\ UNCHANGED components
          ELSE /\ handle' = NoHandle
               /\ UNCHANGED <<tiles, components>>
    /\ ret' = Call("spawn_mut", <<coords>>, handle')
    /\ UNCHANGED <<background_tile, nattach, attached>>

spawn_mut(coords) ==
    /\ StoreRunning
    /\ LET key == build_quad_key(coords)
       IN IF IsSome(key)
          THEN IF key.v \in DOMAIN tiles
               THEN /\ handle' = Some(tiles[key.v])
                    /\ UNCHANGED <<tiles, components>>
               ELSE /\ tiles' = MapInsert(tiles, key.v, Tile(coords))
                    /\ components' = MapInsert(components, key.v, <<>>)
                    /\ handle' = Some(Tile(coords))
          ELSE /\ handle' = NoHandle
               /\ UNCHANGED <<tiles, components>>
    /\ ret' = Call("spawn_mut", <<coords>>, handle')
    /\ UNCHANGED <<background_tile, nattach, attached>>

\* TileSpawnResult::insert, on the handle the last spawn_mut returned
insert(component) ==
    /\ StoreRunning
    /\ IsSome(handle)
    /\ nattach < MaxAttach
    /\    LET coords == handle.v.coords
              key == build_quad_key(coords)
          IN /\ IF IsNothing(key)
                THEN /\ ret' = Call("insert", <<coords, component>>, Nothing)
                     /\ UNCHANGED <<components, attached>>
                ELSE IF key.v \notin DOMAIN components
                THEN /\ ret' = Call("insert", <<coords, component>>, Fault)
                     /\ UNCHANGED <<components, attached>>
                ELSE /\ components' = [components EXCEPT ![key.v] = Append(@, component)]
                     /\ attached' = attached \cup
                            {[key |-> key.v, type |-> component.type, id |-> component.id]}
                     /\ ret' = Call("insert", <<coords, component>>, Nothing)
             /\ nattach' = nattach + 1
    /\ UNCHANGED <<tiles, background_tile, handle>>

\* Mutant: only the tile map is emptied.
clear_keeps_components ==
    /\ StoreRunning
    /\ tiles' = <<>>
    /\ handle' = NoHandle
    /\ attached' = {}
    /\ ret' = Call("clear", <<>>, Nothing)
    /\ UNCHANGED <<components, background_tile, nattach>>

\* Tiles::clear
clear ==
    /\ StoreRunning
    /\ tiles' = <<>>
    /\ components' = <<>>
    /\ handle' = NoHandle
    /\ attached' = {}
    /\ ret' = Call("clear", <<>>, Nothing)
    /\ UNCHANGED <<background_tile, nattach>>

(***************************************************************************)
(* Queries.  A query is a component request &T (Ref), &mut T (Mut) or a    *)
(* tuple of two queries (Pair).  A found component is handed out as an     *)
(* Item with its access; a tuple query hands out a Tuple of two results.   *)
(***************************************************************************)
Ref(type) == [q |-> "ref", type |-> type]
Mut(type) == [q |-> "mut", type |-> type]
Pair(l, r) == [q |-> "pair", l |-> l, r |-> r]
Item(component, access) == [item |-> "one", component |-> component, access |-> access]
Tuple(l, r) == [item |-> "tuple", l |-> l, r |-> r]

\* tiles.components.get(&tile.coords.build_quad_key()?)?
ComponentsAt(coords) ==
    LET key == build_quad_key(coords)
    IN IF IsSome(key) /\ key.v \in DOMAIN components
       THEN Some(components[key.v]) ELSE Nothing

\* Mutant: the search runs from the back of the list.
FindComponent_from_back(comps, type) ==
    LET found == {i \in 1..Len(comps) : comps[i].type = type}
    IN IF found = {} THEN Nothing
       ELSE Some(comps[CHOOSE i \in found : \A j \in found : i >= j])

\* components.iter().find(|component| type_id == TypeId::of::<T>())
FindComponent(comps, type) ==
    LET found == {i \in 1..Len(comps) : comps[i].type = type}
    IN IF found = {} THEN Nothing
       ELSE Some(comps[CHOOSE i \in found : \A j \in found : i <= j])

\* The lookup shared by the three impls for one component type
Lookup(coords, type, access) ==
    LET comps == ComponentsAt(coords)
    IN IF IsNothing(comps) THEN Nothing
       ELSE LET c == FindComponent(comps.v, type)
            IN IF IsNothing(c) THEN Nothing ELSE Some(Item(c.v, access))

\* ComponentQuery::query for &T and for (CQ1, CQ2)
RECURSIVE ComponentQuery_query(_, _)
ComponentQuery_query(q, coords) ==
    IF q.q = "ref" THEN Lookup(coords, q.type, "shared")
    ELSE LET l == ComponentQuery_query(q.l, coords)
         IN IF IsNothing(l) THEN Nothing
            ELSE LET r == ComponentQuery_query(q.r, coords)
                 IN IF IsNothing(r) THEN Nothing ELSE Some(Tuple(l.v, r.v))

\* ComponentQueryUnsafe::query_unsafe for &T and &mut T; the result and the
\* set GlobalQueryState::mutably_borrowed after the call
Unsafe(result, borrowed) == [result |-> result, borrowed |-> borrowed]
\* Mutant: the type is not recorded as borrowed.
query_unsafe_forgets_borrow(q, coords, borrowed) ==
    IF q.q = "ref" THEN Unsafe(ComponentQuery_query(q, coords), borrowed)
    ELSE IF q.type \in borrowed THEN Unsafe(Fault, borrowed)
    ELSE Unsafe(Lookup(coords, q.type, "exclusive"), borrowed)
query_unsafe(q, coords, borrowed) ==
    IF q.q = "ref" THEN Unsafe(ComponentQuery_query(q, coords), borrowed)
    ELSE IF q.type \in borrowed THEN Unsafe(Fault, borrowed)
    ELSE Unsafe(Lookup(coords, q.type, "exclusive"), borrowed \cup {q.type})

\* Mutant: a tuple whose second part finds nothing yields its first part.
ComponentQueryMut_query_mut_keeps_first(q, coords) ==
    CASE q.q = "ref" -> ComponentQuery_query(q, coords)
      [] q.q = "mut" -> Lookup(coords, q.type, "exclusive")
      [] q.q = "pair" ->
            LET l == query_unsafe(q.l, coords, {})
            IN IF ~IsSome(l.result) THEN l.result
               ELSE LET r == query_unsafe(q.r, coords, l.borrowed)
                    IN IF IsFault(r.result) THEN r.result
                       ELSE IF IsNothing(r.result) THEN l.result
                       ELSE Some(Tuple(l.result.v, r.result.v))

\* ComponentQueryMut::query_mut for &T, &mut T and (CQ1, CQ2)
ComponentQueryMut_query_mut(q, coords) ==
    CASE q.q = "ref" -> ComponentQuery_query(q, coords)
      [] q.q = "mut" -> Lookup(coords, q.type, "exclusive")
      [] q.q = "pair" ->
            LET l == query_unsafe(q.l, coords, {})
            IN IF ~IsSome(l.result) THEN l.result
               ELSE LET r == query_unsafe(q.r, coords, l.borrowed)
                    IN IF ~IsSome(r.result) THEN r.result
                       ELSE Some(Tuple(l.result.v, r.result.v))

\* The queries of the exploration.  ComponentQuery is implemented for &T and
\* for tuples of ComponentQuery, to any depth; ComponentQueryMut for a tuple
\* needs ComponentQueryUnsafe of both parts, which only &T and &mut T have.
QueryTypes == {"A", "B"}
RefLeaves == {Ref(t) : t \in QueryTypes}
MutLeaves == RefLeaves \cup {Mut(t) : t \in QueryTypes}
ReadQueries ==
    RefLeaves \cup {Pair(Ref("A"), Ref("B")), Pair(Ref("B"), Ref("B")),
                    Pair(Pair(Ref("A"), Ref("B")), Ref("A")),
                    Pair(Ref("B"), Pair(Ref("B"), Ref("A")))}
MutQueries ==
    MutLeaves \cup {Pair(Mut(t), Mut(u)) : t \in QueryTypes, u \in QueryTypes}
              \cup {Pair(Mut("A"), Ref("A")), Pair(Ref("A"), Mut("B"))}

\* Tiles::query
query(coords) ==
    /\ StoreRunning
    /\ \E q \in ReadQueries :
          ret' = Call("query", <<coords, q>>, ComponentQuery_query(q, coords))
    /\ handle' = NoHandle
    /\ UNCHANGED <<tiles, components, background_tile, nattach, attached>>

\* Tiles::query_mut
query_mut(coords) ==
    /\ StoreRunning
    /\ \E q \in MutQueries :
          ret' = Call("query_mut", <<coords, q>>, ComponentQueryMut_query_mut(q, coords))
    /\ handle' = NoHandle
    /\ UNCHANGED <<tiles, components, background_tile, nattach, attached>>

(***************************************************************************)
(* Tiles::find_layer.  loaded is what the buffer pool's                    *)
(* get_loaded_layers_at(coords) returns: an Option of a set of style layer *)
(* ids.                                                                    *)
(***************************************************************************)
unwrap_or_default(loaded) == IF IsSome(loaded) THEN loaded.v ELSE {}

\* Mutant: entries that are already loaded are not filtered out.
find_source_layer_ignores_loaded(coords, style_layer_id, loaded_layers) ==
    LET vector_layers == ComponentQueryMut_query_mut(Ref(VectorLayers), coords)
    IN IF IsNothing(vector_layers) THEN Nothing
       ELSE LET available ==
                    SelectSeq(vector_layers.v.component.layers,
                              LAMBDA data : data.kind = "Available")
                matching == SelectSeq(available,
                                      LAMBDA layer : style_layer_id = layer.style_layer_id)
            IN IF matching = <<>> THEN Nothing ELSE Some(Head(matching))

\* The branch for a style layer with a source layer (lines 92-110)
find_source_layer(coords, style_layer_id, loaded_layers) ==
    LET vector_layers == ComponentQueryMut_query_mut(Ref(VectorLayers), coords)
    IN IF IsNothing(vector_layers) THEN Nothing
       ELSE LET available ==
                    SelectSeq(vector_layers.v.component.layers,
                              LAMBDA data : /\ data.kind = "Available"
                                            /\ data.style_layer_id \notin loaded_layers)
                matching == SelectSeq(available,
                                      LAMBDA layer : style_layer_id = layer.style_layer_id)
            IN IF matching = <<>> THEN Nothing ELSE Some(Head(matching))

SourceLayerNames == {Nothing, Some("a")}
StyleLayerIds == {"s1", "s2"}
LoadedLayers == {Nothing, Some({"s1"})}

\* Mutant: the background quad is handed out whether or not the id is loaded.
find_layer_background_always(coords) ==
    /\ StoreRunning
    /\ \E source_layer_name \in SourceLayerNames, style_layer_id \in StyleLayerIds,
          loaded \in LoadedLayers :
          LET loaded_layers == unwrap_or_default(loaded)
              args == <<coords, source_layer_name, style_layer_id, loaded>>
          IN IF IsSome(source_layer_name)
             THEN /\ ret' = Call("find_layer", args,
                                 find_source_layer(coords, style_layer_id, loaded_layers))
                  /\ UNCHANGED background_tile
             ELSE /\ background_tile' = [background_tile EXCEPT
                                            !.style_layer_id = style_layer_id]
                  /\ ret' = Call("find_layer", args, Some(background_tile'))
    /\ handle' = NoHandle
    /\ UNCHANGED <<tiles, components, nattach, attached>>

find_layer(coords) ==
    /\ StoreRunning
    /\ \E source_layer_name \in SourceLayerNames, style_layer_id \in StyleLayerIds,
          loaded \in LoadedLayers :
          LET loaded_layers == unwrap_or_default(loaded)
              args == <<coords, source_layer_name, style_layer_id, loaded>>
          IN IF IsSome(source_layer_name)
             THEN /\ ret' = Call("find_layer", args,
                                 find_source_layer(coords, style_layer_id, loaded_layers))
                  /\ UNCHANGED background_tile
             ELSE IF style_layer_id \notin loaded_layers
             THEN /\ background_tile' = [background_tile EXCEPT
                                            !.style_layer_id = style_layer_id]
                  /\ ret' = Call("find_layer", args, Some(background_tile'))
             ELSE /\ ret' = Call("find_layer", args, Nothing)
                  /\ UNCHANGED background_tile
    /\ handle' = NoHandle
    /\ UNCHANGED <<tiles, components, nattach, attached>>

InitStore ==
    /\ InitTessellator /\ filter = NoFilter
    /\ ProcessIdle
    /\ PureIdle
    /\ DefaultTiles

NextStore ==
    /\ \/ \E coords \in StoreCoords :
             \/ exists(coords)
             \/ spawn_mut(coords)
             \/ query(coords)
             \/ query_mut(coords)
       \/ \E component \in PlainComponents(nattach + 1) : insert(component)
       \/ clear
    /\ UNCHANGED tessVars
    /\ UNCHANGED procVars
    /\ UNCHANGED pureVars

\* The store with vector layers attached, and find_layer applied to it
NextFindLayer ==
    /\ \/ \E coords \in StoreCoords :
             \/ spawn_mut(coords)
             \/ find_layer(coords)
       \/ \E component \in LayerComponents(nattach + 1) : insert(component)
       \/ clear
    /\ UNCHANGED tessVars
    /\ UNCHANGED procVars
    /\ UNCHANGED pureVars

SpecStore == InitStore /\ [][NextStore]_vars
SpecFindLayer == InitStore /\ [][NextFindLayer]_vars

(***************************************************************************)
(* Claims about the tile component store (SpecStore, SpecFindLayer)        *)
(***************************************************************************)
\* The step is a call of op: every call writes ret, and two calls that leave
\* the same ret and the same store are one and the same step.
Called(op) == ret'.op = op
KeyOf(coords) == build_quad_key(coords).v
Addressable(coords) == IsSome(build_quad_key(coords))
HasTile(coords) == Addressable(coords) /\ KeyOf(coords) \in DOMAIN tiles

\* C11: spawn at a coordinate that already has a tile returns a handle to the
\* existing entry and leaves the tile map and every component list as they
\* were (same tiles, same components in the same order), so every query
\* answers after it as it answered before.
C11_SpawnIdempotent ==
    [][(Called("spawn_mut") /\ HasTile(ret'.args[1])) =>
          /\ IsSome(ret'.result)
          /\ ret'.result.v = tiles[KeyOf(ret'.args[1])]
          /\ tiles' = tiles
          /\ components' = components
          /\ \A c \in StoreCoords, q \in RefLeaves :
                ComponentQuery_query(q, c)' = ComponentQuery_query(q, c)]_vars
C11_Witness ==
    /\ ret.op = "spawn_mut" /\ IsSome(ret.result)
    /\ Cardinality(DOMAIN tiles) = 2
    /\ Len(components[KeyOf(ret.args[1])]) = 2
    /\ IsSome(ComponentQuery_query(Ref("B"), ret.args[1]))

\* C12: spawn at a coordinate that has no quadkey returns nothing and leaves
\* the tile map and the component map unchanged.
C12_SpawnUnaddressable ==
    [][(Called("spawn_mut") /\ ~Addressable(ret'.args[1])) =>
          /\ IsNothing(ret'.result)
          /\ tiles' = tiles
          /\ components' = components]_vars
C12_Witness ==
    /\ ret.op = "spawn_mut" /\ ~Addressable(ret.args[1])
    /\ IsNothing(ret.result)
    /\ tiles # <<>>

\* Identities of the components of a type attached at a coordinate's tile
\* since the last clear, from the record of the attach calls
AttachedIds(coords, type) ==
    {a.id : a \in {a \in attached :
                      Addressable(coords) /\ a.key = KeyOf(coords) /\ a.type = type}}
Earliest(ids) == CHOOSE i \in ids : \A j \in ids : i <= j
IsEarliest(result, coords, type) ==
    IF AttachedIds(coords, type) = {} THEN IsNothing(result)
    ELSE /\ IsSome(result)
         /\ result.v.component.type = type
         /\ result.v.component.id = Earliest(AttachedIds(coords, type))

\* C13: a read-only query for a component type at a coordinate returns the
\* earliest component of that type attached to the coordinate's tile since
\* the last clear, and nothing when there is none (unaddressable coordinate,
\* no tile, or no component of the type); what was attached of other types or
\* to other tiles plays no part.
C13_QueryReturnsEarliest ==
    /\ \A c \in StoreCoords, t \in QueryTypes :
          IsEarliest(ComponentQuery_query(Ref(t), c), c, t)
    /\ (ret.op = "query" /\ ret.args[2].q = "ref") =>
          IsEarliest(ret.result, ret.args[1], ret.args[2].type)
C13_Witness ==
    /\ ret.op = "query" /\ ret.args[2].q = "ref"
    /\ Cardinality(AttachedIds(ret.args[1], ret.args[2].type)) = 2
    /\ IsSome(ret.result)
    /\ ret.result.v.component.id = 1

\* C14: a tuple query that requests one component type exclusively twice
\* faults, whatever the store holds at the coordinate.
C14_DoubleExclusiveAlwaysFaults ==
    (/\ ret.op = "query_mut" /\ ret.args[2].q = "pair"
     /\ ret.args[2].l.q = "mut" /\ ret.args[2].r.q = "mut"
     /\ ret.args[2].l.type = ret.args[2].r.type) => IsFault(ret.result)

\* The component types a query requests, and whether a request finds one
RECURSIVE Requested(_)
Requested(q) == IF q.q = "pair" THEN Requested(q.l) \cup Requested(q.r) ELSE {q.type}
Holds(coords, type) ==
    /\ HasTile(coords)
    /\ \E i \in 1..Len(components[KeyOf(coords)]) : components[KeyOf(coords)][i].type = type
\* The result has an item for every request of the query
RECURSIVE Complete(_, _)
Complete(q, item) ==
    IF q.q = "pair"
    THEN item.item = "tuple" /\ Complete(q.l, item.l) /\ Complete(q.r, item.r)
    ELSE item.item = "one" /\ item.component.type = q.type

\* C15: a tuple query, read-only or exclusive, returns a result only if every
\* sub-query finds its component, and then the result has an item for every
\* sub-query; if any sub-query finds nothing the whole query returns nothing.
C15_TupleAllOrNothing ==
    (ret.op \in {"query", "query_mut"} /\ ret.args[2].q = "pair") =>
        LET coords == ret.args[1]
            q == ret.args[2]
        IN /\ IsSome(ret.result) =>
                /\ \A t \in Requested(q) : Holds(coords, t)
                /\ Complete(q, ret.result.v)
           /\ (\E t \in Requested(q) : ~Holds(coords, t)) => IsNothing(ret.result)
C15_Witness ==
    /\ ret.op = "query_mut" /\ ret.args[2].q = "pair"
    /\ Holds(ret.args[1], ret.args[2].l.type)
    /\ ~Holds(ret.args[1], ret.args[2].r.type)
    /\ IsNothing(ret.result)

\* C16: every tile's component list holds at most one component of each
\* concrete component type.
C16_OneComponentPerType ==
    \A key \in DOMAIN components :
        \A i, j \in 1..Len(components[key]) :
            components[key][i].type = components[key][j].type => i = j

\* The vector-layers components held by a coordinate's tile
VectorLayerComponents(coords) ==
    IF HasTile(coords)
    THEN {components[KeyOf(coords)][i] : i \in
             {i \in 1..Len(components[KeyOf(coords)]) :
                 components[KeyOf(coords)][i].type = VectorLayers}}
    ELSE {}
\* An Available entry for the style layer id exists on the tile
AvailableEntries(coords, style_layer_id) ==
    {e \in UNION {{c.layers[i] : i \in 1..Len(c.layers)} : c \in VectorLayerComponents(coords)} :
        e.kind = "Available" /\ e.style_layer_id = style_layer_id}

\* C17: find_layer with a source-layer name returns an entry only if it is an
\* Available entry of the tile's vector-layers component with the requested
\* style layer id, and the id is not in the loaded set; it returns nothing
\* when the tile has no vector-layers component, when the entries for the id
\* are Missing only, or when the id is loaded.
C17_FindSourceLayer ==
    (ret.op = "find_layer" /\ IsSome(ret.args[2])) =>
        LET coords == ret.args[1]
            style_layer_id == ret.args[3]
            loaded_layers == unwrap_or_default(ret.args[4])
        IN /\ IsSome(ret.result) =>
                /\ ret.result.v \in AvailableEntries(coords, style_layer_id)
                /\ style_layer_id \notin loaded_layers
           /\ VectorLayerComponents(coords) = {} => IsNothing(ret.result)
           /\ AvailableEntries(coords, style_layer_id) = {} => IsNothing(ret.result)
           /\ style_layer_id \in loaded_layers => IsNothing(ret.result)
C17_Witness ==
    /\ ret.op = "find_layer" /\ IsSome(ret.args[2])
    /\ IsSome(ret.result)
    /\ ret.args[3] = "s2" /\ ret.args[4] = Some({"s1"})
    /\ \E c \in VectorLayerComponents(ret.args[1]) : c.layers[1].kind = "Missing"

\* C18: find_layer without a source-layer name returns the store's background
\* quad, or nothing when the style layer id is loaded; the quad's buffer and
\* ledger never change (the ledger is one entry, the quad's index count),
\* whatever the coordinate, and the call leaves the tile map and the
\* component map unchanged.
C18_FindBackground ==
    [][/\ background_tile'.buffer = background_tile.buffer
       /\ background_tile'.feature_indices = background_tile.feature_indices
       /\ (Called("find_layer") /\ IsNothing(ret'.args[2])) =>
             /\ IF ret'.args[3] \in unwrap_or_default(ret'.args[4])
                THEN IsNothing(ret'.result)
                ELSE /\ IsSome(ret'.result)
                     /\ ret'.result.v = background_tile'
                     /\ ret'.result.v.buffer = background_tile.buffer
                     /\ ret'.result.v.feature_indices = <<background_tile.buffer.i>>
             /\ tiles' = tiles
             /\ components' = components]_vars
C18_Witness ==
    /\ ret.op = "find_layer" /\ IsNothing(ret.args[2])
    /\ ~Addressable(ret.args[1])
    /\ IsSome(ret.result)
    /\ ret.result.v.feature_indices = <<6>>
    /\ ret.args[4] = Some({"s1"})
    /\ components # <<>>

\* C19: clear removes every tile and every component: after it no coordinate
\* exists and every query returns nothing, the spawn that follows creates an
\* empty component list, and the background quad is as it was.
C19_ClearEmptiesStore ==
    [][/\ Called("clear") =>
             /\ background_tile' = background_tile
             /\ \A c \in StoreCoords :
                   /\ ~HasTile(c)'
                   /\ \A q \in ReadQueries : IsNothing(ComponentQuery_query(q, c))'
                   /\ \A q \in MutQueries : IsNothing(ComponentQueryMut_query_mut(q, c))'
       /\ (ret.op = "clear" /\ Called("exists")) => ret'.result.v = FALSE
       /\ (ret.op = "clear" /\ (Called("query") \/ Called("query_mut"))) =>
             IsNothing(ret'.result)
       /\ (ret.op = "clear" /\ Called("spawn_mut") /\ Addressable(ret'.args[1])) =>
             components'[KeyOf(ret'.args[1])] = <<>>]_vars
C19_Witness ==
    /\ ret.op = "spawn_mut" /\ IsSome(ret.result)
    /\ nattach >= 1 /\ attached = {}
    /\ Cardinality(DOMAIN tiles) = 1
    /\ components[KeyOf(ret.args[1])] = <<>>

(***************************************************************************)
(* The filter evaluator on its own: an expression and a property map are   *)
(* drawn, and evaluate is applied to them once.                            *)
(***************************************************************************)
ComparisonOps == {"Eq", "Neq", "Gt", "Geq", "Lt", "Leq"}
\* Float payloads are in units of 1/FloatScale: LitFloat(10) is 5.0
FilterLiterals == {LitInteger(3), LitInteger(5), LitInteger(10), LitFloat(10),
                   LitString("water"), LitString("park"), LitBool(TRUE)}
FilterKeys == {"x", "y"}
PropertyMaps == UNION {[keys -> FilterLiterals] : keys \in SUBSET FilterKeys}
LeafExpressions ==
    {Comparison(op, "x", lit) : op \in ComparisonOps, lit \in FilterLiterals}
        \cup {Has("x"), NotHas("x"), In("x", <<"water">>), NotIn("x", <<"water">>)}
FilterExpressions ==
    LeafExpressions
        \cup {All(<<Has("y"), e>>) : e \in LeafExpressions}
        \cup {Any(<<e, Has("y")>>) : e \in LeafExpressions}
        \cup {None(<<e>>) : e \in LeafExpressions}
        \cup {None(<<Any(<<e, Has("y")>>)>>) : e \in LeafExpressions}
        \cup {All(<<None(<<e>>), Any(<<>>)>>) : e \in LeafExpressions}
        \cup {None(<<Has("x"), Has("y")>>), Any(<<All(<<>>), In("x", <<"water">>)>>)}
        \cup {All(<<>>), Any(<<>>), None(<<>>)}

Pending == "pending"
InitFilter ==
    /\ InitTessellator /\ filter = NoFilter
    /\ ProcessIdle
    /\ StoreIdle
    /\ \E e \in FilterExpressions, p \in PropertyMaps :
          evaluated = [expr |-> e, properties |-> p, result |-> Pending]

\* filter.evaluate(&properties)
Evaluate ==
    /\ evaluated.result = Pending
    /\ evaluated' = [evaluated EXCEPT !.result = evaluate(evaluated.expr, evaluated.properties)]

NextFilter ==
    /\ Evaluate
    /\ UNCHANGED tessVars
    /\ UNCHANGED procVars
    /\ UNCHANGED storeVars

SpecFilter == InitFilter /\ [][NextFilter]_vars

(***************************************************************************)
(* Claims about the filter evaluator (SpecFilter)                          *)
(***************************************************************************)
\* C20: a Comparison on a key that the property map lacks is false for each
\* of the six operators, inequality included; with the key present and an
\* integer value, Gt against an integer literal is true exactly when the
\* property value is the greater.
C20_ComparisonAbsentKeyAndGt ==
    (evaluated.result # Pending /\ evaluated.expr.tag = "Comparison") =>
        LET e == evaluated.expr
            p == evaluated.properties
        IN /\ e.key \notin DOMAIN p => evaluated.result = "false"
           /\ (/\ e.op = "Gt" /\ e.key \in DOMAIN p
               /\ p[e.key].kind = "Integer" /\ e.value.kind = "Integer") =>
                 (evaluated.result = "true" <=> p[e.key].n > e.value.n)
C20_Witness ==
    /\ evaluated.result = "false"
    /\ evaluated.expr.tag = "Comparison" /\ evaluated.expr.op = "Neq"
    /\ evaluated.expr.key \notin DOMAIN evaluated.properties
    /\ evaluated.properties # <<>>

\* C21: with the key present, an ordering operator (>, >=, <, <=) never
\* faults; an integer or float property value is compared with an integer or
\* float literal by their numeric values; and a property value and a literal
\* of different kinds (numbers apart), or a boolean on either side, compare
\* false.
OrderingOps == {"Gt", "Geq", "Lt", "Leq"}
Numeric(l) == l.kind \in {"Integer", "Float"}
\* the numeric value times FloatScale
Scaled(l) == IF l.kind = "Integer" THEN l.n * FloatScale ELSE l.n
Ordered(op, x, y) ==
    CASE op = "Gt" -> x > y
      [] op = "Geq" -> x >= y
      [] op = "Lt" -> x < y
      [] op = "Leq" -> x <= y
OrderingCase ==
    /\ evaluated.result # Pending
    /\ evaluated.expr.tag = "Comparison"
    /\ evaluated.expr.op \in OrderingOps
    /\ evaluated.expr.key \in DOMAIN evaluated.properties
C21_OrderingMixedKinds ==
    OrderingCase =>
        LET e == evaluated.expr
            v == evaluated.properties[e.key]
        IN /\ evaluated.result \in {"true", "false"}
           /\ (Numeric(v) /\ Numeric(e.value)) =>
                 (evaluated.result = "true" <=> Ordered(e.op, Scaled(v), Scaled(e.value)))
           /\ (~(Numeric(v) /\ Numeric(e.value))
                 /\ (v.kind # e.value.kind \/ v.kind = "Bool")) =>
                 evaluated.result = "false"
C21_Witness ==
    /\ OrderingCase
    /\ evaluated.expr.op = "Geq"
    /\ evaluated.properties[evaluated.expr.key].kind = "Bool"
    /\ evaluated.expr.value.kind = "Bool"
    /\ evaluated.result = "false"
C21_WitnessNumeric ==
    /\ OrderingCase
    /\ evaluated.expr.op = "Leq"
    /\ evaluated.properties[evaluated.expr.key] = LitInteger(5)
    /\ evaluated.expr.value = LitFloat(10)
    /\ evaluated.result = "true"

\* C22: with the key present, Eq is true exactly when the property value and
\* the literal are of the same kind and carry the same value, so an integer
\* and a float of the same numeric value are not equal; Neq is true exactly
\* when Eq on the same operands is false.
Payload(l) ==
    CASE l.kind \in {"Integer", "Float"} -> <<"n", l.n>>
      [] l.kind = "String" -> <<"s", l.s>>
      [] l.kind = "Bool" -> <<"b", l.b>>
SameLiteral(x, y) == x.kind = y.kind /\ Payload(x) = Payload(y)
EqualityCase ==
    /\ evaluated.result # Pending
    /\ evaluated.expr.tag = "Comparison"
    /\ evaluated.expr.op \in {"Eq", "Neq"}
    /\ evaluated.expr.key \in DOMAIN evaluated.properties
C22_EqualityIsTagged ==
    EqualityCase =>
        LET e == evaluated.expr
            v == evaluated.properties[e.key]
        IN /\ e.op = "Eq" => (evaluated.result = "true" <=> SameLiteral(v, e.value))
           /\ e.op = "Neq" => (evaluated.result = "true" <=> ~SameLiteral(v, e.value))
           /\ evaluated.result \in {"true", "false"}
C22_Witness ==
    /\ EqualityCase
    /\ evaluated.expr.op = "Eq"
    /\ evaluated.properties[evaluated.expr.key] = LitInteger(5)
    /\ evaluated.expr.value = LitFloat(5 * FloatScale)
    /\ evaluated.result = "false"

\* C23: at every combinator of the expression tree whose children each
\* evaluate to true or false, All is true iff every child is true, Any is
\* true iff some child is true, and None is true iff no child is true; an
\* empty All or None is true and an empty Any is false.
Combinators == {"All", "Any", "None"}
ChildrenOf(e) == {e.children[i] : i \in 1..Len(e.children)}
ChildrenDecide(e, props) ==
    \A c \in ChildrenOf(e) : evaluate(c, props) \in {"true", "false"}
Combined(e, props) ==
    CASE e.tag = "All" -> \A c \in ChildrenOf(e) : evaluate(c, props) = "true"
      [] e.tag = "Any" -> \E c \in ChildrenOf(e) : evaluate(c, props) = "true"
      [] e.tag = "None" -> ~\E c \in ChildrenOf(e) : evaluate(c, props) = "true"
RECURSIVE CombinatorsAgree(_, _)
CombinatorsAgree(e, props) ==
    e.tag \in Combinators =>
        /\ ChildrenDecide(e, props) =>
              (evaluate(e, props) = "true" <=> Combined(e, props))
        /\ ChildrenDecide(e, props) => evaluate(e, props) \in {"true", "false"}
        /\ \A c \in ChildrenOf(e) : CombinatorsAgree(c, props)
C23_Combinators ==
    (evaluated.result # Pending /\ evaluated.expr.tag \in Combinators) =>
        /\ evaluated.result = evaluate(evaluated.expr, evaluated.properties)
        /\ CombinatorsAgree(evaluated.expr, evaluated.properties)
C23_Witness ==
    /\ evaluated.result = "true"
    /\ evaluated.expr.tag = "None"
    /\ Len(evaluated.expr.children) = 1
    /\ evaluated.expr.children[1].tag = "Any"
    /\ Len(evaluated.expr.children[1].children) = 2
    /\ ChildrenDecide(evaluated.expr.children[1], evaluated.properties)
    /\ evaluated.properties # <<>>

\* C24 as stated: evaluate returns true or false for every expression tree
\* and every property map.
C24_EvaluateTotal ==
    evaluated.result # Pending => evaluated.result \in {"true", "false"}

\* C24, amended: evaluate returns true or false for every expression tree
\* and property map in which no In or NotIn names a key that is present with
\* a non-string value; it faults only on a tree that holds such a
\* membership test.
Membership == {"In", "NotIn"}
RECURSIVE HasUnsupportedMembership(_, _)
HasUnsupportedMembership(e, props) ==
    CASE e.tag \in Membership ->
            e.key \in DOMAIN props /\ props[e.key].kind # "String"
      [] e.tag \in Combinators ->
            \E i \in 1..Len(e.children) : HasUnsupportedMembership(e.children[i], props)
      [] OTHER -> FALSE
C24_TotalExceptMembership ==
    evaluated.result # Pending =>
        /\ evaluated.result \in {"true", "false", "fault"}
        /\ evaluated.result = "fault" =>
              HasUnsupportedMembership(evaluated.expr, evaluated.properties)
C24_Witness ==
    /\ evaluated.result = "true"
    /\ evaluated.expr = None(<<Any(<<In("x", <<"water">>), Has("y")>>)>>)
    /\ DOMAIN evaluated.properties = {"x"}
    /\ evaluated.properties["x"] = LitString("park")
    /\ ~HasUnsupportedMembership(evaluated.expr, evaluated.properties)

(***************************************************************************)
(* Claims about unsupported filter operations (SpecTessellator)            *)
(***************************************************************************)
\* C25: unsupported filter operations fault instead of yielding true or
\* false.  When a completion event has run the filter of the tessellator
\* and that filter is an In or a NotIn whose key is present with a
\* non-string value, the tessellator has panicked and the feature was not
\* marked filtered; when the property handler was given a date or a binary
\* value, the tessellator has panicked and the property map holds literals
\* only.
FilterRan ==
    \/ lastEv.name \in {"linestring_end", "polygon_end"} /\ lastEv.tagged
    \/ lastEv.name \in {"multilinestring_end", "multipolygon_end"}
UnsupportedMembership ==
    /\ filter # NoFilter
    /\ filter.tag \in {"In", "NotIn"}
    /\ filter.key \in DOMAIN properties
    /\ properties[filter.key].kind # "String"
UnsupportedValue ==
    lastEv.name = "property" /\ lastEv.value.ty \in {"DateTime", "Binary"}
C25_UnsupportedOperationsFault ==
    /\ (FilterRan /\ UnsupportedMembership) => (tess_pc = "panicked" /\ ~filtered)
    /\ UnsupportedValue =>
          (tess_pc = "panicked" /\ \A k \in DOMAIN properties : properties[k].kind # "fault")
C25_Witness ==
    /\ FilterRan /\ UnsupportedMembership
    /\ filter.tag = "NotIn"
    /\ "$type" \in DOMAIN properties
    /\ tess_pc = "panicked"

(***************************************************************************)
(* f32 arithmetic, IEEE 754 binary32 with round-to-nearest-even.           *)
(* A finite value is s * m * 2^e with s the sign (1 or -1), m < 2^24 and   *)
(* e >= -149; it is kept with m odd, or as m = 0, e = 0 for the two zeros, *)
(* so that equal values are equal records.  k = "inf" is an infinity of    *)
(* sign s and k = "nan" is NaN.  Every operation computes the exact result *)
(* to more bits than the format keeps, with a sticky flag for what lies    *)
(* below them, and rounds it once (RoundF32).                              *)
(***************************************************************************)
Abs(x) == IF x < 0 THEN -x ELSE x
Sgn(x) == IF x < 0 THEN -1 ELSE 1
RECURSIVE BitLen(_)
BitLen(n) == IF n = 0 THEN 0 ELSE 1 + BitLen(n \div 2)
Zero(s) == [k |-> "num", s |-> s, m |-> 0, e |-> 0]
Inf(sign) == [k |-> "inf", s |-> sign, m |-> 0, e |-> 0]
NaN == [k |-> "nan", s |-> 1, m |-> 0, e |-> 0]
IsFinite(x) == x.k = "num"
IsZero(x) == x.k = "num" /\ x.m = 0
RECURSIVE Canonical(_, _, _)
Canonical(s, m, e) ==
    IF m = 0 THEN Zero(s)
    ELSE IF m % 2 = 0 THEN Canonical(s, m \div 2, e + 1)
    ELSE [k |-> "num", s |-> s, m |-> m, e |-> e]

\* The f32 nearest to a magnitude that lies in [N * 2^e, (N + 1) * 2^e) and
\* is above N * 2^e exactly when sticky; ties go to the even significand.
\* The significand keeps 24 bits, fewer below 2^-126 (the least unit is
\* 2^-149), and a value that rounds to 2^128 or more is an infinity.
\* A sticky magnitude comes with N of 25 bits or more.
RECURSIVE RoundF32(_, _, _, _)
RoundF32(s, N, e, sticky) ==
    IF N >= 2^30 THEN RoundF32(s, N \div 2, e + 1, sticky \/ N % 2 = 1)
    ELSE IF N = 0 THEN Zero(s)
    ELSE LET L == BitLen(N)
             q == IF e + L - 24 > -149 THEN e + L - 24 ELSE -149
             sh == q - e
         IN IF sh <= 0
            THEN IF L + e > 128 THEN Inf(s) ELSE Canonical(s, N, e)
            ELSE IF sh > 30 THEN Zero(s)
            ELSE LET M == N \div 2^sh
                     rem == N % 2^sh
                     half == 2^(sh - 1)
                     up == rem > half \/ (rem = half /\ (sticky \/ M % 2 = 1))
                     R == IF up THEN M + 1 ELSE M
                 IN IF BitLen(R) + q > 128 THEN Inf(s) ELSE Canonical(s, R, q)

\* k more bits of the quotient q of a division by d with remainder r
RECURSIVE DivBits(_, _, _, _)
DivBits(r, d, q, k) ==
    IF k = 0 THEN <<q, r>>
    ELSE IF 2 * r >= d THEN DivBits(2 * r - d, d, 2 * q + 1, k - 1)
    ELSE DivBits(2 * r, d, 2 * q, k - 1)
\* the f32 nearest to s * (a / b) * 2^e, for 0 < a, b <= 2^30
RECURSIVE DivInt(_, _, _, _)
DivInt(s, a, b, e) ==
    IF a < b THEN DivInt(s, 2 * a, b, e - 1)
    ELSE LET q0 == a \div b
             k == IF BitLen(q0) >= 29 THEN 0 ELSE 29 - BitLen(q0)
             qr == DivBits(a % b, b, q0, k)
         IN RoundF32(s, qr[1], e - k, qr[2] # 0)

\* the f32 nearest to n / d (d # 0); exact when n / d is an f32
Ratio(n, d) ==
    IF n = 0 THEN Zero(1) ELSE DivInt(Sgn(n) * Sgn(d), Abs(n), Abs(d), 0)
\* `n as f32` for an integer n
F32(n) == RoundF32(Sgn(n), Abs(n), 0, FALSE)

FNeg(x) == IF x.k = "nan" THEN NaN ELSE [x EXCEPT !.s = -x.s]
\* m * 2^e rewritten with a significand of exactly 24 bits
Norm24(x) ==
    LET up == 24 - BitLen(x.m) IN [m |-> x.m * 2^up, e |-> x.e - up]
\* the sum of two finite non-zero values: the significands are aligned
\* with five guard bits, and what is shifted out of the smaller is sticky
AddFinite(x, y) ==
    LET nx == Norm24(x)
        ny == Norm24(y)
        xBig == nx.e > ny.e \/ (nx.e = ny.e /\ nx.m >= ny.m)
        big == IF xBig THEN nx ELSE ny
        small == IF xBig THEN ny ELSE nx
        sBig == IF xBig THEN x.s ELSE y.s
        sSmall == IF xBig THEN y.s ELSE x.s
        d == big.e - small.e
        A == big.m * 32
        B == IF d >= 30 THEN 0 ELSE (small.m * 32) \div 2^d
        sticky == IF d >= 30 THEN TRUE ELSE (small.m * 32) % 2^d # 0
    IN IF sBig = sSmall THEN RoundF32(sBig, A + B, big.e - 5, sticky)
       ELSE IF A = B /\ ~sticky THEN Zero(1)
       ELSE RoundF32(sBig, IF sticky THEN A - B - 1 ELSE A - B, big.e - 5, sticky)
FAdd(x, y) ==
    CASE x.k = "nan" \/ y.k = "nan" -> NaN
      [] x.k = "inf" /\ y.k = "inf" -> IF x.s = y.s THEN x ELSE NaN
      [] x.k = "inf" -> x
      [] y.k = "inf" -> y
      [] IsZero(x) /\ IsZero(y) -> IF x.s = y.s THEN x ELSE Zero(1)
      [] IsZero(x) -> y
      [] IsZero(y) -> x
      [] OTHER -> AddFinite(x, y)
FSub(x, y) == FAdd(x, FNeg(y))
\* the product of two finite non-zero values: the 48-bit product of the
\* significands in two 24-bit words, cut to 30 bits with the rest sticky
MulFinite(x, y) ==
    LET a1 == x.m \div 4096
        a0 == x.m % 4096
        b1 == y.m \div 4096
        b0 == y.m % 4096
        mid == a1 * b0 + a0 * b1
        low == a0 * b0 + (mid % 4096) * 4096
        hi == a1 * b1 + mid \div 4096 + low \div 16777216
        lo == low % 16777216
        t == 30 - BitLen(hi)
    IN IF t >= 24 THEN RoundF32(x.s * y.s, hi * 16777216 + lo, x.e + y.e, FALSE)
       ELSE RoundF32(x.s * y.s, hi * 2^t + lo \div 2^(24 - t), x.e + y.e + 24 - t,
                     lo % 2^(24 - t) # 0)
FMul(x, y) ==
    CASE x.k = "nan" \/ y.k = "nan" -> NaN
      [] x.k = "inf" \/ y.k = "inf" ->
            IF IsZero(x) \/ IsZero(y) THEN NaN ELSE Inf(x.s * y.s)
      [] IsZero(x) \/ IsZero(y) -> Zero(x.s * y.s)
      [] OTHER -> MulFinite(x, y)
FDiv(x, y) ==
    CASE x.k = "nan" \/ y.k = "nan" -> NaN
      [] x.k = "inf" /\ y.k = "inf" -> NaN
      [] x.k = "inf" -> Inf(x.s * y.s)
      [] y.k = "inf" -> Zero(x.s * y.s)
      [] IsZero(y) -> IF IsZero(x) THEN NaN ELSE Inf(x.s * y.s)
      [] IsZero(x) -> Zero(x.s * y.s)
      [] OTHER -> DivInt(x.s * y.s, x.m, y.m, x.e - y.e)
\* `==` and `<=` on f32: NaN equals nothing and is ordered with nothing,
\* and the two zeros are equal
FEq(x, y) == x.k # "nan" /\ y.k # "nan" /\ (x = y \/ (IsZero(x) /\ IsZero(y)))
FLeq(x, y) ==
    CASE x.k = "nan" \/ y.k = "nan" -> FALSE
      [] x.k = "inf" -> x.s = -1 \/ x = y
      [] y.k = "inf" -> y.s = 1
      [] OTHER -> LET dl == FSub(x, y) IN IsZero(dl) \/ dl.s = -1

\* num_traits::pow(base, exp), exponentiation by squaring: the base is
\* squared while the exponent is even, then the remaining bits of the
\* exponent are taken from the lowest, the accumulator being multiplied by
\* the current square at every set bit.  Each product is rounded.
RECURSIVE pow_acc(_, _, _)
pow_acc(base, exp, acc) ==
    IF exp > 1
    THEN LET sq == FMul(base, base)
         IN pow_acc(sq, exp \div 2, IF (exp \div 2) % 2 = 1 THEN FMul(acc, sq) ELSE acc)
    ELSE acc
RECURSIVE pow(_, _)
pow(base, exp) ==
    IF exp = 0 THEN F32(1)
    ELSE IF exp % 2 = 0 THEN pow(FMul(base, base), exp \div 2)
    ELSE IF exp = 1 THEN base
    ELSE pow_acc(base, exp, base)

(***************************************************************************)
(* ZoomLevel: an 8-bit zoom.  Its subtraction of a u8 is checked and       *)
(* panics when the result would be negative.                               *)
(***************************************************************************)
ZoomSub(a, b) == IF a >= b THEN Some(a - b) ELSE Fault

(***************************************************************************)
(* InterpolatedQuantity<f32> and interpolate                               *)
(***************************************************************************)
Fixed(val) == [tag |-> "Fixed", val |-> val]
Interpolated(base, stops) == [tag |-> "Interpolated", base |-> base, stops |-> stops]
Stop(zoom, value) == [zoom |-> zoom, value |-> value]

\* stops.iter().zip(stops.iter().skip(1)).find(..): the index of the first
\* adjacent pair that brackets the zoom, 0 when there is none
Brackets(stops, i, zoom_level) ==
    stops[i].zoom <= zoom_level /\ stops[i + 1].zoom >= zoom_level
\* Mutant: a pair brackets the zoom as soon as its first stop is not above it.
window_lower_bound_only(stops, zoom_level) ==
    IF \E i \in 1..(Len(stops) - 1) : stops[i].zoom <= zoom_level
    THEN CHOOSE i \in 1..(Len(stops) - 1) :
            /\ stops[i].zoom <= zoom_level
            /\ \A j \in 1..(i - 1) : ~(stops[j].zoom <= zoom_level)
    ELSE 0

window(stops, zoom_level) ==
    IF \E i \in 1..(Len(stops) - 1) : Brackets(stops, i, zoom_level)
    THEN CHOOSE i \in 1..(Len(stops) - 1) :
            /\ Brackets(stops, i, zoom_level)
            /\ \A j \in 1..(i - 1) : ~Brackets(stops, j, zoom_level)
    ELSE 0

\* Mutant: the exponential factor is the ratio of the two powers.
interp_factor_ratio_of_powers(base, zoom_diff, zoom_prog) ==
    IF zoom_diff = 0 THEN F32(0)
    ELSE IF FEq(base, F32(1)) THEN FDiv(F32(zoom_diff), F32(zoom_prog))
    ELSE FDiv(pow(base, zoom_prog), pow(base, zoom_diff))

\* the interpolation factor of a bracketing pair
interp_factor(base, zoom_diff, zoom_prog) ==
    IF zoom_diff = 0 THEN F32(0)
    ELSE IF FEq(base, F32(1)) THEN FDiv(F32(zoom_diff), F32(zoom_prog))
    ELSE FDiv(FSub(pow(base, zoom_prog), F32(1)), FSub(pow(base, zoom_diff), F32(1)))

interpolate(quantity, zoom_level) ==
    IF quantity.tag = "Fixed" THEN Some(quantity.val)
    ELSE LET stops == quantity.stops
         IN IF stops = <<>> THEN Nothing
            ELSE LET w == window(stops, zoom_level)
                 IN IF w # 0
                    THEN LET stop_a == stops[w]
                             stop_b == stops[w + 1]
                             zoom_diff == ZoomSub(stop_b.zoom, stop_a.zoom)
                             zoom_prog == ZoomSub(zoom_level, stop_a.zoom)
                         IN IF IsFault(zoom_diff) \/ IsFault(zoom_prog) THEN Fault
                            ELSE Some(FAdd(stop_a.value,
                                           FMul(FSub(stop_b.value, stop_a.value),
                                                interp_factor(quantity.base, zoom_diff.v,
                                                              zoom_prog.v))))
                    ELSE IF zoom_level <= stops[1].zoom THEN Some(stops[1].value)
                    ELSE Some(stops[Len(stops)].value)

(***************************************************************************)
(* LayerPaint::get_color.  A css colour is [r, g, b, a] in f64; the colour *)
(* handed to the renderer is [color |-> [r, g, b], alpha] in f32.  The     *)
(* three paints with a colour carry (colour, opacity), both optional; a    *)
(* raster paint has none.                                                  *)
(***************************************************************************)
\* an f64 given as the fraction n / d it is equal to
F64(n, d) == [n |-> n, d |-> d]
\* `x as f32` for an f64 x: the nearest f32
AsF32(x) == Ratio(x.n, x.d)
Color(r, g, b, a) == [r |-> r, g |-> g, b |-> b, a |-> a]
\* color.clone().into(): Color -> Alpha<EncodedSrgb<f32>>, each field narrowed
CintFromColor(c) ==
    [color |-> [r |-> AsF32(c.r), g |-> AsF32(c.g), b |-> AsF32(c.b)],
     alpha |-> AsF32(c.a)]
BackgroundPaint(color, opacity) ==
    [tag |-> "Background", color |-> color, opacity |-> opacity]
LinePaint(color, opacity) == [tag |-> "Line", color |-> color, opacity |-> opacity]
FillPaint(color, opacity) == [tag |-> "Fill", color |-> color, opacity |-> opacity]
RasterPaint == [tag |-> "Raster"]

\* the window search written out in cint_color_from_css_color_and_opacity
alpha_window(stops, zoom_level) ==
    LET found == {i \in 1..(Len(stops) - 1) :
                     stops[i].zoom <= zoom_level /\ stops[i + 1].zoom >= zoom_level}
    IN IF found = {} THEN 0
       ELSE CHOOSE i \in found : \A j \in found : i <= j

\* Mutant: the linear factor is progress over span.
alpha_interp_factor_progress_over_span(base, zoom_diff_u8, zoom_prog_u8) ==
    IF zoom_diff_u8 = 0 THEN F32(0)
    ELSE IF FEq(base, F32(1)) THEN FDiv(F32(zoom_prog_u8), F32(zoom_diff_u8))
    ELSE FDiv(FSub(pow(base, zoom_prog_u8), F32(1)),
              FSub(pow(base, zoom_diff_u8), F32(1)))

\* the interp_factor written out in cint_color_from_css_color_and_opacity
alpha_interp_factor(base, zoom_diff_u8, zoom_prog_u8) ==
    IF zoom_diff_u8 = 0 THEN F32(0)
    ELSE IF FEq(base, F32(1)) THEN FDiv(F32(zoom_diff_u8), F32(zoom_prog_u8))
    ELSE FDiv(FSub(pow(base, zoom_prog_u8), F32(1)),
              FSub(pow(base, zoom_diff_u8), F32(1)))

cint_color_from_css_color_and_opacity(css_color, opacity, zoom_level) ==
    IF IsNothing(css_color) THEN Nothing
    ELSE LET c == CintFromColor(css_color.v)
         IN IF IsNothing(opacity) THEN Some(c)
            ELSE IF opacity.v.tag = "Fixed" THEN Some([c EXCEPT !.alpha = opacity.v.val])
            ELSE LET base == opacity.v.base
                     stops == opacity.v.stops
                 IN IF stops = <<>> THEN Some(c)
                    ELSE LET w == alpha_window(stops, zoom_level)
                         IN IF w # 0
                            THEN LET stop_a == stops[w]
                                     stop_b == stops[w + 1]
                                     zoom_diff == ZoomSub(stop_b.zoom, stop_a.zoom)
                                     zoom_prog == ZoomSub(zoom_level, stop_a.zoom)
                                 IN IF IsFault(zoom_diff) \/ IsFault(zoom_prog) THEN Fault
                                    ELSE Some([c EXCEPT !.alpha =
                                            FAdd(stop_a.value,
                                                 FMul(FSub(stop_b.value, stop_a.value),
                                                      alpha_interp_factor(base, zoom_diff.v,
                                                                          zoom_prog.v)))])
                            ELSE IF zoom_level <= stops[1].zoom
                                 THEN Some([c EXCEPT !.alpha = stops[1].value])
                                 ELSE Some([c EXCEPT !.alpha = stops[Len(stops)].value])

get_color(paint, zoom_level) ==
    IF paint.tag = "Raster" THEN Nothing
    ELSE cint_color_from_css_color_and_opacity(paint.color, paint.opacity, zoom_level)

(***************************************************************************)
(* interpolate and get_color on their own: a quantity, a zoom and a paint  *)
(* whose opacity is the quantity are drawn, and each function is applied   *)
(* to them once.                                                           *)
(***************************************************************************)
MaxStops == 3
Bases == {F32(1), F32(2), Ratio(1, 2)}
\* the last stop has a value whose distance to the others is not an f32
StopChoices ==
    {Stop(0, F32(0)), Stop(2, F32(1)), Stop(10, F32(10)), Stop(2, Ratio(1, 2)),
     Stop(0, F32(100000000))}
StopLists == UNION {[1..n -> StopChoices] : n \in 0..MaxStops}
Quantities ==
    {Fixed(F32(0)), Fixed(Ratio(1, 2))}
        \cup {Interpolated(base, stops) : base \in Bases, stops \in StopLists}
ZoomLevels == {0, 1, 2, 5, 10, 20}
CssColors ==
    {Nothing, Some(Color(F64(536870913, 1073741824), F64(1, 2), F64(0, 1), F64(1, 4)))}
Paints(q) ==
    {RasterPaint} \cup
    UNION {{BackgroundPaint(c, Some(q)), LinePaint(c, Some(q)), FillPaint(c, Some(q))} :
              c \in CssColors}

\* the result slot before interpolate has returned
NotReturned == [tag |-> "pending"]
Returned == evaluated.result.tag # "pending"

InitInterpolate ==
    /\ InitTessellator /\ filter = NoFilter
    /\ ProcessIdle
    /\ StoreIdle
    /\ \E q \in Quantities, z \in ZoomLevels :
          \E paint \in Paints(q) :
             evaluated = [quantity |-> q, zoom_level |-> z, result |-> NotReturned,
                          paint |-> paint, color |-> NotReturned]

\* interpolate(&quantity, zoom_level)
Interpolate ==
    /\ ~Returned
    /\ evaluated' = [evaluated EXCEPT
                        !.result = interpolate(evaluated.quantity, evaluated.zoom_level)]

\* paint.get_color(zoom_level)
GetColor ==
    /\ evaluated.color.tag = "pending"
    /\ evaluated' = [evaluated EXCEPT
                        !.color = get_color(evaluated.paint, evaluated.zoom_level)]

NextInterpolate ==
    /\ \/ Interpolate
       \/ GetColor
    /\ UNCHANGED tessVars
    /\ UNCHANGED procVars
    /\ UNCHANGED storeVars

SpecInterpolate == InitInterpolate /\ [][NextInterpolate]_vars

(***************************************************************************)
(* Claims about interpolate (SpecInterpolate)                              *)
(***************************************************************************)
Sorted(stops) ==
    \A i \in 1..Len(stops), j \in 1..Len(stops) : i < j => stops[i].zoom <= stops[j].zoom
InterpolatedCase ==
    /\ Returned
    /\ evaluated.quantity.tag = "Interpolated"
    /\ evaluated.quantity.stops # <<>>
StopsAt(stops, zoom_level) == {i \in 1..Len(stops) : stops[i].zoom = zoom_level}

\* C26: for stops sorted ascending by zoom and any base, interpolate at a
\* zoom equal to the zoom of a stop returns the value of a stop of that zoom.
C26_BoundaryReturnsStopValue ==
    (InterpolatedCase /\ Sorted(evaluated.quantity.stops)) =>
        LET stops == evaluated.quantity.stops
            at == StopsAt(stops, evaluated.zoom_level)
        IN at # {} => \E i \in at : evaluated.result = Some(stops[i].value)

\* a + (b - a) is b in f32 for every two stop values a and b
ExactDifferences(stops) ==
    \A i, j \in 1..Len(stops) :
        FAdd(stops[i].value, FSub(stops[j].value, stops[i].value)) = stops[j].value
\* C26 holds on every quantity whose base is not 1.0 and whose stop values
\* have exact differences: there the boundary is missed by the linear
\* factor alone.  Where b - a is rounded, a + (b - a) * 1 is not b.
C26_BoundaryExponential ==
    (InterpolatedCase /\ Sorted(evaluated.quantity.stops)
        /\ ExactDifferences(evaluated.quantity.stops)
        /\ evaluated.quantity.base # F32(1)) =>
        LET stops == evaluated.quantity.stops
            at == StopsAt(stops, evaluated.zoom_level)
        IN at # {} => \E i \in at : evaluated.result = Some(stops[i].value)

\* The first adjacent pair (a, b) of the stops with a.zoom <= zoom <= b.zoom
Bracketing(stops, zoom_level) ==
    {i \in 1..(Len(stops) - 1) :
        stops[i].zoom <= zoom_level /\ zoom_level <= stops[i + 1].zoom}
FirstBracketing(stops, zoom_level) ==
    CHOOSE i \in Bracketing(stops, zoom_level) :
        \A j \in Bracketing(stops, zoom_level) : i <= j
\* a.value + (b.value - a.value) * factor
Blend(a, b, factor) == FAdd(a.value, FMul(FSub(b.value, a.value), factor))

\* C27: with base 1.0 and a zoom strictly inside the bracketing pair (a, b),
\* interpolate returns a.value + (b.value - a.value) * (zoom - a.zoom) /
\* (b.zoom - a.zoom).
C27_LinearInterpolation ==
    (InterpolatedCase /\ evaluated.quantity.base = F32(1)
        /\ Bracketing(evaluated.quantity.stops, evaluated.zoom_level) # {}) =>
        LET stops == evaluated.quantity.stops
            i == FirstBracketing(stops, evaluated.zoom_level)
            a == stops[i]
            b == stops[i + 1]
        IN (a.zoom < evaluated.zoom_level /\ evaluated.zoom_level < b.zoom) =>
              evaluated.result =
                  Some(Blend(a, b, Ratio(evaluated.zoom_level - a.zoom, b.zoom - a.zoom)))

\* C28: with a base other than 1.0 and a zoom inside the bracketing pair
\* (a, b) of non-zero span, interpolate returns a.value + (b.value - a.value)
\* * (base^progress - 1) / (base^span - 1); with a span of zero, whatever the
\* base, the factor is 0 and a.value is returned.
C28_ExponentialInterpolation ==
    (InterpolatedCase
        /\ Bracketing(evaluated.quantity.stops, evaluated.zoom_level) # {}) =>
        LET stops == evaluated.quantity.stops
            base == evaluated.quantity.base
            i == FirstBracketing(stops, evaluated.zoom_level)
            a == stops[i]
            b == stops[i + 1]
            span == b.zoom - a.zoom
            progress == evaluated.zoom_level - a.zoom
        IN /\ (span # 0 /\ base # F32(1)) =>
                 evaluated.result =
                     Some(Blend(a, b, FDiv(FSub(pow(base, progress), F32(1)),
                                           FSub(pow(base, span), F32(1)))))
           /\ span = 0 => evaluated.result = Some(a.value)
C28_Witness ==
    /\ Returned
    /\ evaluated.quantity = Interpolated(F32(2), <<Stop(0, F32(0)), Stop(2, F32(1))>>)
    /\ evaluated.zoom_level = 1
    /\ evaluated.result = Some(Ratio(1, 3))

\* C29: for a non-empty stop list sorted ascending, interpolate returns the
\* first stop's value at a zoom below every stop and the last stop's value
\* at a zoom above every stop; a one-stop list returns its stop's value at
\* every zoom; a fixed quantity returns its value at every zoom; an empty
\* stop list returns nothing.
C29_Clamping ==
    Returned =>
        LET q == evaluated.quantity
            z == evaluated.zoom_level
        IN /\ q.tag = "Fixed" => evaluated.result = Some(q.val)
           /\ (q.tag = "Interpolated" /\ q.stops = <<>>) => IsNothing(evaluated.result)
           /\ (q.tag = "Interpolated" /\ Len(q.stops) = 1) =>
                 evaluated.result = Some(q.stops[1].value)
           /\ (q.tag = "Interpolated" /\ q.stops # <<>> /\ Sorted(q.stops)) =>
                 /\ (\A i \in 1..Len(q.stops) : z < q.stops[i].zoom) =>
                       evaluated.result = Some(q.stops[1].value)
                 /\ (\A i \in 1..Len(q.stops) : z > q.stops[i].zoom) =>
                       evaluated.result = Some(q.stops[Len(q.stops)].value)
C29_Witness ==
    /\ InterpolatedCase
    /\ Len(evaluated.quantity.stops) = 3
    /\ Sorted(evaluated.quantity.stops)
    /\ \A i \in 1..3 : evaluated.zoom_level > evaluated.quantity.stops[i].zoom
    /\ evaluated.quantity.stops[1].value # evaluated.quantity.stops[3].value
    /\ evaluated.quantity.stops[2].value # evaluated.quantity.stops[3].value
    /\ evaluated.result = Some(evaluated.quantity.stops[3].value)

\* C30: for a non-empty stop list in any order and any zoom, interpolate
\* returns a value: no subtraction of zooms underflows, and the value lies
\* between the smallest and the largest stop value.
WithinStopValues(stops, v) ==
    /\ IsFinite(v)
    /\ \E i \in 1..Len(stops) : FLeq(stops[i].value, v)
    /\ \E i \in 1..Len(stops) : FLeq(v, stops[i].value)
C30_UnsortedStopsTolerated ==
    InterpolatedCase =>
        /\ IsSome(evaluated.result)
        /\ WithinStopValues(evaluated.quantity.stops, evaluated.result.v)

\* C30 holds on every quantity whose base is not 1.0 and whose stop values
\* have exact differences: there the range is left by the linear factor
\* alone.
C30_ExponentialWithinStopValues ==
    (InterpolatedCase /\ ExactDifferences(evaluated.quantity.stops)
        /\ evaluated.quantity.base # F32(1)) =>
        /\ IsSome(evaluated.result)
        /\ WithinStopValues(evaluated.quantity.stops, evaluated.result.v)
\* No subtraction of zooms underflows, whatever the order of the stops.
C30_NoUnderflow == Returned => ~IsFault(evaluated.result)

(***************************************************************************)
(* Claims about the geometry events of the tessellator (SpecTessellator)   *)
(***************************************************************************)
\* C31: the vertex/index buffer changes only in a step that handles a
\* tagged linestring_end or a multilinestring_end, which tessellates
\* strokes ($type is LineString), or a tagged polygon_end or a
\* multipolygon_end, which tessellates a fill ($type is Polygon); untagged
\* completions, coordinate events and begin events leave it as it is.
TypeIs(props, name) ==
    "$type" \in DOMAIN props /\ props["$type"] = LitString(name)
C31_OnlyOuterCompletionsTessellate ==
    [][buffer' # buffer =>
          \/ /\ \/ lastEv'.name = "linestring_end" /\ lastEv'.tagged
                \/ lastEv'.name = "multilinestring_end"
             /\ TypeIs(properties', "LineString")
          \/ /\ \/ lastEv'.name = "polygon_end" /\ lastEv'.tagged
                \/ lastEv'.name = "multipolygon_end"
             /\ TypeIs(properties', "Polygon")]_vars
C31_Witness ==
    /\ lastEv.name = "multilinestring_end"
    /\ nfeat = 1 /\ ngeom = 1
    /\ buffer.i > 0
    /\ TypeIs(properties, "LineString")

\* C32: every ring of a polygon was ended with closure forced: while the
\* event stream is inside a top-level polygon or multipolygon, each
\* sub-path that the path builder holds as ended has its close flag set.
InsidePolygon == Len(stream) >= 2 /\ stream[2] \in {"polygon", "multipolygon"}
C32_PolygonRingsForcedClosed ==
    (tess_pc = "run" /\ InsidePolygon) =>
        \A i \in 1..Len(path_builder.subs) : path_builder.subs[i]

\* C33: at the start of every feature the filtered flag is false and the
\* property map is empty; until the first completion of the feature runs
\* the filter, the flag stays false and the map holds only keys that the
\* property events of this feature delivered.
BeforeFirstCompletion == stream # <<>> /\ ngeom = 0 /\ ~FilterRan
C33_FeatureBeginResets ==
    /\ lastEv.name = "feature_begin" => (~filtered /\ properties = EmptyMap)
    /\ (tess_pc = "run" /\ BeforeFirstCompletion) =>
          (~filtered /\ DOMAIN properties \subseteq PropKeys)
C33_Witness ==
    /\ lastEv.name = "feature_begin"
    /\ nfeat = 2
    /\ featLog[1].filtered
    /\ ~filtered /\ properties = EmptyMap

\* C34: every completion of a feature after its first one runs the filter
\* on the property map that the completion before it saw, and gives the
\* same verdict: the map and the filtered flag are as they were, and a
\* feature that is marked filtered appends nothing.
C34_SameVerdictPerFeature ==
    [][(FilterRan' /\ tess_pc' = "run" /\ ngeom >= 1 /\ "$type" \in DOMAIN properties) =>
          /\ properties' = properties
          /\ filtered' = filtered
          /\ filtered => buffer' = buffer]_vars

\* C35: at each feature_end no path is open and the path builder holds no
\* pending geometry.
C35_NoPathAcrossFeatures ==
    (tess_pc = "run" /\ lastEv.name = "feature_end") =>
        (~path_open /\ path_builder = EmptyBuilder)

(***************************************************************************)
(* Further claims about the tile store (SpecStore)                         *)
(***************************************************************************)
\* C36: the tile map and the component map always have the same keys, and
\* an attach through the handle that spawn returned never faults: it
\* appends the component to the list of the handle's tile and leaves every
\* other list as it was.
C36_MapsShareKeys ==
    /\ [](DOMAIN tiles = DOMAIN components)
    /\ [][Called("insert") =>
            LET key == KeyOf(ret'.args[1])
            IN /\ ~IsFault(ret'.result)
               /\ key \in DOMAIN components
               /\ components' = [components EXCEPT ![key] = Append(@, ret'.args[2])]]_vars
C36_Witness ==
    /\ ret.op = "insert" /\ IsNothing(ret.result)
    /\ nattach = 2
    /\ Cardinality(attached) = 1
    /\ Cardinality(DOMAIN tiles) = 2
    /\ components[KeyOf(ret.args[1])] = <<ret.args[2]>>

\* C37: a tuple that query_mut hands out never holds an exclusive reference
\* together with another reference, shared or exclusive, to the same stored
\* component.
C37_ExclusiveIsAlone ==
    (/\ ret.op = "query_mut" /\ IsSome(ret.result)
     /\ ret.result.v.item = "tuple") =>
        LET l == ret.result.v.l
            r == ret.result.v.r
        IN (l.access = "exclusive" \/ r.access = "exclusive") =>
              l.component # r.component

(***************************************************************************)
(* Claims about process_vector_tile: which requested names are reported    *)
(* (SpecProcess)                                                           *)
(***************************************************************************)
\* The style layers of the request that name n as their source layer
StyleLayersOf(t, n) ==
    {k \in 1..Len(req[t].style) : req[t].style[k].source_layer = n}
\* A message of tile t reports the requested name n: a layer_missing of the
\* missing phase that carries n, or the report of a pair whose style layer
\* has n as its source layer.
ReportsName(t, m, n) ==
    /\ m.coords = t
    /\ m.kind \in {"layer_tessellated", "layer_missing"}
    /\ \/ m.phase = "missing" /\ m.name = n
       \/ m.phase = "layers" /\ \E k \in StyleLayersOf(t, n) : req[t].style[k].id = m.name
ReportedBeforeFinish(t, n) ==
    \E i, j \in 1..Len(sink) :
        /\ i < j
        /\ ReportsName(t, sink[i], n)
        /\ sink[j].coords = t /\ sink[j].kind = "tile_finished"
ReturnedOk(t) == inv[t].pc = "returned" /\ inv[t].result = "Ok"

\* C38 as stated: in every run that returned Ok, each requested layer name
\* has at least one report sent before tile_finished, the requested layers
\* that are decoded but matched by no style layer included.
C38_EveryRequestedLayerReported ==
    \A t \in TileIds : ReturnedOk(t) =>
        \A n \in req[t].layers : ReportedBeforeFinish(t, n)

\* C38 amended: in every run that returned Ok, a requested layer name has a
\* report before tile_finished exactly when it is absent from the tile or
\* at least one style layer names it as its source layer; a requested layer
\* that is decoded but matched by no style layer gets no report.
C38_ReportedUnlessUnstyled ==
    \A t \in TileIds : ReturnedOk(t) =>
        \A n \in req[t].layers :
            ReportedBeforeFinish(t, n) <=>
                (n \in AbsentNames(t) \/ StyleLayersOf(t, n) # {})
\* an Ok run with a styled decoded layer, which is reported, and an unstyled
\* decoded layer, which is not
C38_Witness ==
    /\ ReturnedOk(1)
    /\ req[1].layers = {"a", "b"}
    /\ DecodedNames(1) = {"a", "b"}
    /\ StyleLayersOf(1, "a") # {} /\ StyleLayersOf(1, "b") = {}
    /\ ReportedBeforeFinish(1, "a") /\ ~ReportedBeforeFinish(1, "b")
\* an Ok run in which an absent requested name is reported missing
C38_WitnessAbsent ==
    /\ ReturnedOk(1)
    /\ req[1].layers = {"a", "b"}
    /\ DecodedNames(1) = {"a"} /\ StyleLayersOf(1, "a") = {}
    /\ ReportedBeforeFinish(1, "b") /\ ~ReportedBeforeFinish(1, "a")

(***************************************************************************)
(* Claims about get_color against interpolate (SpecInterpolate)            *)
(***************************************************************************)
ColorReturned == evaluated.color.tag # "pending"
\* the quantity is fixed or has a stop, and get_color wrote an alpha for it
OpacityResolved ==
    /\ Returned /\ ColorReturned
    /\ evaluated.quantity.tag = "Interpolated" => evaluated.quantity.stops # <<>>
    /\ evaluated.paint.tag # "Raster"
    /\ IsSome(evaluated.paint.color)

\* C39: for every fixed quantity and every non-empty stop list, at every
\* zoom, get_color returns a colour whose alpha is the value interpolate
\* returns for the same quantity and zoom, and whose channels are those of
\* the css colour.
C39_OpacityAgreesWithInterpolate ==
    OpacityResolved =>
        /\ IsSome(evaluated.result) /\ IsSome(evaluated.color)
        /\ evaluated.color.v.alpha = evaluated.result.v
        /\ evaluated.color.v.color = CintFromColor(evaluated.paint.color.v).color
\* a fill paint whose opacity is interpolated inside a bracketing pair,
\* strictly between its stops, to a value that is not the css alpha
C39_Witness ==
    /\ OpacityResolved
    /\ evaluated.paint.tag = "Fill"
    /\ evaluated.quantity.tag = "Interpolated"
    /\ evaluated.quantity.base = F32(1)
    /\ evaluated.quantity.stops = <<Stop(0, F32(0)), Stop(10, F32(10))>>
    /\ evaluated.zoom_level = 5
    /\ evaluated.color.v.alpha = evaluated.result.v
    /\ evaluated.color.v.alpha # AsF32(evaluated.paint.color.v.a)
\* the same for an exponential base
C39_WitnessExponential ==
    /\ OpacityResolved
    /\ evaluated.paint.tag = "Line"
    /\ evaluated.quantity.tag = "Interpolated"
    /\ evaluated.quantity.base = F32(2)
    /\ evaluated.quantity.stops = <<Stop(0, F32(0)), Stop(2, F32(1)), Stop(10, F32(10))>>
    /\ evaluated.zoom_level = 5
    /\ evaluated.color.v.alpha = evaluated.result.v
    /\ evaluated.color.v.alpha \notin {F32(1), F32(10), AsF32(evaluated.paint.color.v.a)}

(***************************************************************************)
(* Claims about In and NotIn (SpecFilter)                                  *)
(***************************************************************************)
\* a NotIn was evaluated on a map whose key is absent or holds a string
NotInCase ==
    /\ evaluated.result # Pending
    /\ evaluated.expr.tag = "NotIn"
    /\ evaluated.expr.key \in DOMAIN evaluated.properties =>
            evaluated.properties[evaluated.expr.key].kind = "String"
\* what In returns for the key, list and map of the NotIn evaluated
InOfSame == evaluate(In(evaluated.expr.key, evaluated.expr.predicates), evaluated.properties)

\* C40: for every key, string list and property map in which the key is
\* absent or holds a string, NotIn(key, list) evaluates to the opposite of
\* In(key, list).
C40_NotInNegatesIn ==
    NotInCase => evaluated.result = Neg3(InOfSame)

\* With the key present and string-valued the two are opposite; with the
\* key absent both are false.
C40_NotInNegatesInWhenPresent ==
    NotInCase =>
        IF evaluated.expr.key \in DOMAIN evaluated.properties
        THEN evaluated.result = Neg3(InOfSame)
        ELSE evaluated.result = "false" /\ InOfSame = "false"

(***************************************************************************)
(* The rounding of f32 in interpolate (SpecInterpolate)                    *)
(***************************************************************************)
\* At the upper stop of a pair the exponential factor is 1, and the value
\* returned is a + (b - a) as f32 computes it: 0 for a = 100000000, b = 1.
RoundedBoundary ==
    /\ Returned
    /\ evaluated.quantity =
          Interpolated(F32(2), <<Stop(0, F32(100000000)), Stop(2, F32(1))>>)
    /\ evaluated.zoom_level = 2
    /\ evaluated.result = Some(F32(0))
====
